---- MODULE Spec2Model ----
(***************************************************************************)
(* Model of the resume-driven form filler:                                 *)
(*   google_form_handler.py   GoogleFormHandler (schema decoder, submit)   *)
(*   rag_workflow_with_human_feedback.py   RAGWorkflowWithHumanFeedback    *)
(*   app.py                   the Streamlit driver (session state, steps)  *)
(*                                                                         *)
(* Python dicts are functions with a string domain, Python lists are       *)
(* sequences, an optional value is <<>> (None) or <<v>>.  Strings are TLA+ *)
(* strings handled at character level (Len, SubSeq, \o).                   *)
(***************************************************************************)
EXTENDS Integers, Sequences, FiniteSets, TLC

\* ------------------------------------------------------------------ bounds
\* Revise cycles after which the human stops asking for changes.
MaxCycles == 2
\* Workflow runs the user starts in a session.
MaxRuns == 1
\* Questions of the largest form a user enters.
BigFormLen == 20
\* Groups of the longest page a handler is answered with.
MaxGroups == 2
\* Calls recorded on handlers of one form.
MaxDecodes == 2

\* ----------------------------------------------------------- Python values
None == <<>>
Some(v) == <<v>>
IsNone(x) == x = <<>>
\* truthiness of an optional dict (None and {} are both false)
TruthyDict(x) == x # <<>> /\ DOMAIN x[1] # {}
EmptyDict == [k \in {} |-> ""]

\* ---------------------------------------------------------------- strings
startswith(s, p) == Len(s) >= Len(p) /\ SubSeq(s, 1, Len(p)) = p
endswith(s, p) == Len(s) >= Len(p) /\ SubSeq(s, Len(s) - Len(p) + 1, Len(s)) = p
contains(s, p) == \E i \in 1..(Len(s) - Len(p) + 1) : SubSeq(s, i, i + Len(p) - 1) = p
IsSpace(c) == c \in {" ", "\n", "\t", "\r"}

RECURSIVE lstrip(_)
lstrip(s) == IF Len(s) > 0 /\ IsSpace(SubSeq(s, 1, 1)) THEN lstrip(SubSeq(s, 2, Len(s))) ELSE s

RECURSIVE rstrip(_)
rstrip(s) == IF Len(s) > 0 /\ IsSpace(SubSeq(s, Len(s), Len(s))) THEN rstrip(SubSeq(s, 1, Len(s) - 1)) ELSE s

strip(s) == rstrip(lstrip(s))

\* str.replace(old, new): left to right, non-overlapping
RECURSIVE replace(_, _, _)
replace(s, old, new) ==
    IF Len(s) < Len(old) THEN s
    ELSE IF SubSeq(s, 1, Len(old)) = old
         THEN new \o replace(SubSeq(s, Len(old) + 1, Len(s)), old, new)
         ELSE SubSeq(s, 1, 1) \o replace(SubSeq(s, 2, Len(s)), old, new)

UpperChar(c) ==
    CASE c = "a" -> "A" [] c = "b" -> "B" [] c = "c" -> "C" [] c = "d" -> "D"
      [] c = "e" -> "E" [] c = "f" -> "F" [] c = "k" -> "K" [] c = "n" -> "N"
      [] c = "o" -> "O" [] c = "t" -> "T" [] c = "y" -> "Y"
      [] OTHER -> c

RECURSIVE upper(_)
upper(s) == IF Len(s) = 0 THEN s ELSE UpperChar(SubSeq(s, 1, 1)) \o upper(SubSeq(s, 2, Len(s)))

\* sep.join(list)
RECURSIVE join(_, _)
join(sep, xs) ==
    IF Len(xs) = 0 THEN ""
    ELSE IF Len(xs) = 1 THEN xs[1]
    ELSE xs[1] \o sep \o join(sep, Tail(xs))

\* the characters of a string as a list (iterating a str)
RECURSIVE chars(_)
chars(s) == IF Len(s) = 0 THEN <<>> ELSE <<SubSeq(s, 1, 1)>> \o chars(SubSeq(s, 2, Len(s)))

\* ','.join(map(str, range(n + 1)))
RECURSIVE RangeStrs(_)
RangeStrs(n) == IF n < 0 THEN <<>> ELSE Append(RangeStrs(n - 1), ToString(n))

\* ---------------------------------------------------- GoogleFormHandler
\* type codes are kept as strings: the synthetic entries carry the string
\* "required" where the decoded ones carry the provider's numeric code
FORM_SESSION_TYPE_ID == "8"
ANY_TEXT_FIELD == "ANY TEXT!!"

\* url.replace('/viewform', '/formResponse'), completed when it does not end with it
get_form_response_url(url) ==
    LET u == replace(url, "/viewform", "/formResponse")
    IN  IF endswith(u, "/formResponse") THEN u
        ELSE (IF endswith(u, "/") THEN u ELSE u \o "/") \o "formResponse"

\* the sub entries of a group taken last to first
parse_entry_reversed(entry) ==
    [i \in 1..Len(entry.subs) |->
        LET sub == entry.subs[Len(entry.subs) + 1 - i]
        IN  [id |-> sub.id,
             container_name |-> entry.name,
             type |-> entry.type,
             required |-> (sub.required = 1),
             name |-> IF Len(sub.name) > 0 THEN Some(join(" - ", sub.name)) ELSE None,
             options |-> IF Len(sub.options) > 0
                         THEN Some([j \in 1..Len(sub.options) |->
                                     IF sub.options[j] = "" THEN ANY_TEXT_FIELD ELSE sub.options[j]])
                         ELSE None]]

\* one group of FB_PUBLIC_LOAD_DATA_[1][1]: entry[1], entry[3], entry[4];
\* one sub entry: sub[0] id, sub[1] options, sub[2] required flag, sub[3] name path
parse_entry(entry) ==
    [i \in 1..Len(entry.subs) |->
        LET sub == entry.subs[i]
        IN  [id |-> sub.id,
             container_name |-> entry.name,
             type |-> entry.type,
             required |-> (sub.required = 1),
             name |-> IF Len(sub.name) > 0 THEN Some(join(" - ", sub.name)) ELSE None,
             options |-> IF Len(sub.options) > 0
                         THEN Some([j \in 1..Len(sub.options) |->
                                     IF sub.options[j] = "" THEN ANY_TEXT_FIELD ELSE sub.options[j]])
                         ELSE None]]

RECURSIVE WalkGroups(_)
\* the loop of parse_form_entries over the groups: <<parsed entries, page_count>>
WalkGroups(groups) ==
    IF Len(groups) = 0 THEN [entries |-> <<>>, page_count |-> 0]
    ELSE LET rest == WalkGroups(SubSeq(groups, 1, Len(groups) - 1))
             g == groups[Len(groups)]
         IN  IF g.type = FORM_SESSION_TYPE_ID
             THEN [entries |-> rest.entries, page_count |-> rest.page_count + 1]
             ELSE [entries |-> rest.entries \o parse_entry(g), page_count |-> rest.page_count]

EmailEntry ==
    [id |-> "emailAddress", container_name |-> "Email Address", type |-> "required",
     required |-> TRUE, options |-> Some(chars("email address"))]

\* the default value stopping before the page count
PageHistoryEntry_exclusive(page_count) ==
    [id |-> "pageHistory", container_name |-> "Page History", type |-> "required",
     required |-> FALSE, options |-> Some(chars("from 0 to (number of page - 1)")),
     default_value |-> join(",", RangeStrs(page_count - 1))]

PageHistoryEntry(page_count) ==
    [id |-> "pageHistory", container_name |-> "Page History", type |-> "required",
     required |-> FALSE, options |-> Some(chars("from 0 to (number of page - 1)")),
     default_value |-> join(",", RangeStrs(page_count))]

\* the fetch reading the variable whatever the status
get_fb_public_load_data_any_status(page) ==
    IF ~page.hasVar THEN None
    ELSE Some([groups |-> page.groups, email |-> page.email])

\* a fetched page: HTTP status, whether the script variable is present, the
\* group list form_data[1][1] and the e-mail setting form_data[1][10][6]
get_fb_public_load_data(page) ==
    IF page.status # 200 THEN None
    ELSE IF ~page.hasVar THEN None
    ELSE Some([groups |-> page.groups, email |-> page.email])

\* parse_form_entries: None, or the list of entries with the two synthetic ones
parse_form_entries(page) ==
    LET fd == get_fb_public_load_data(page)
    IN  IF IsNone(fd) \/ Len(fd[1].groups) = 0 THEN None
        ELSE LET w == WalkGroups(fd[1].groups)
                 withEmail == IF fd[1].email > 1 THEN Append(w.entries, EmailEntry) ELSE w.entries
                 withPages == IF w.page_count > 0
                              THEN Append(withEmail, PageHistoryEntry(w.page_count))
                              ELSE withEmail
             IN  Some(withPages)

get_form_type_value_rule(type_id) ==
    CASE type_id = "0" -> "short answer"
      [] type_id = "1" -> "paragraph"
      [] type_id = "2" -> "multiple choice"
      [] type_id = "3" -> "dropdown"
      [] type_id = "4" -> "checkboxes"
      [] type_id = "5" -> "linear scale"
      [] type_id = "7" -> "grid choice"
      [] type_id = "9" -> "date"
      [] type_id = "10" -> "time"
      [] type_id = "required" -> "required field"
      [] OTHER -> "any text"

\* the Entry_ID column: "entry." + id, the id itself for the synthetic entries
EntryIdOf(entry) ==
    IF entry.type # "required" THEN "entry." \o entry.id ELSE entry.id

\* the frame row naming the checkbox type a single choice
QuestionRow_checkboxes_single(entry) ==
    [Entry_ID |-> EntryIdOf(entry),
     Question |-> IF "name" \in DOMAIN entry /\ ~IsNone(entry.name)
                  THEN entry.container_name \o ": " \o entry.name[1]
                  ELSE entry.container_name,
     Required |-> entry.required,
     Field_Type |-> get_form_type_value_rule(entry.type),
     Selection_Type |-> CASE entry.type = "2" -> Some("Single Choice")
                          [] entry.type = "3" -> Some("Dropdown")
                          [] entry.type = "4" -> Some("Single Choice")
                          [] OTHER -> None,
     Options |-> IF ~IsNone(entry.options) /\ Len(entry.options[1]) > 0
                 THEN Some(join(", ", entry.options[1])) ELSE None]

QuestionRow(entry) ==
    [Entry_ID |-> EntryIdOf(entry),
     Question |-> IF "name" \in DOMAIN entry /\ ~IsNone(entry.name)
                  THEN entry.container_name \o ": " \o entry.name[1]
                  ELSE entry.container_name,
     Required |-> entry.required,
     Field_Type |-> get_form_type_value_rule(entry.type),
     Selection_Type |-> CASE entry.type = "2" -> Some("Single Choice")
                          [] entry.type = "3" -> Some("Dropdown")
                          [] entry.type = "4" -> Some("Multiple Choice")
                          [] OTHER -> None,
     Options |-> IF ~IsNone(entry.options) /\ Len(entry.options[1]) > 0
                 THEN Some(join(", ", entry.options[1])) ELSE None]

\* the filter comparing with the wrong spelling of the id
NotPageHistory_kept(row) == row.Entry_ID # "pagehistory"

NotPageHistory(row) == row.Entry_ID # "pageHistory"
IsRequiredRow(row) == row.Required = TRUE

\* get_form_questions_df on the decoded entries (None or empty: the empty frame)
get_form_questions_df(entries, only_required) ==
    IF IsNone(entries) \/ Len(entries[1]) = 0 THEN <<>>
    ELSE LET rows == [i \in 1..Len(entries[1]) |-> QuestionRow(entries[1][i])]
             shown == SelectSeq(rows, NotPageHistory)
         IN  IF only_required THEN SelectSeq(shown, IsRequiredRow) ELSE shown


\* a GoogleFormHandler as constructed
GoogleFormHandler(url) ==
    [url |-> url, form_data |-> None, entries |-> None, page_count |-> 0]

\* the count going on from the one the handler already holds
page_count_reset_kept(previous) == previous

\* self.page_count = 0 before the groups are walked
page_count_reset(previous) == 0

\* parse_form_entries called on a handler that may have parsed before: the
\* handler afterwards and the value returned (parse_form_entries(page) above
\* is this call on a handler just constructed)
HandlerParse(self, page) ==
    LET fd == get_fb_public_load_data(page)
    IN  IF IsNone(fd) \/ Len(fd[1].groups) = 0
        THEN [self |-> [self EXCEPT !.form_data = fd], returned |-> None]
        ELSE LET w == WalkGroups(fd[1].groups)
                 page_count == page_count_reset(self.page_count) + w.page_count
                 withEmail == IF fd[1].email > 1 THEN Append(w.entries, EmailEntry) ELSE w.entries
                 withPages == IF page_count > 0
                              THEN Append(withEmail, PageHistoryEntry(page_count))
                              ELSE withEmail
             IN  [self |-> [self EXCEPT !.form_data = fd, !.entries = Some(withPages),
                                        !.page_count = page_count],
                  returned |-> Some(withPages)]

\* get_form_questions_df called on a handler: the entries are parsed only
\* when the handler holds none
HandlerQuestions(self, page, only_required) ==
    LET after == IF IsNone(self.entries) \/ Len(self.entries[1]) = 0
                 THEN HandlerParse(self, page).self ELSE self
    IN  [self |-> after, returned |-> get_form_questions_df(after.entries, only_required)]


\* ------------------------------------------------------------- the web
\* the viewer URLs a user can enter and the page each one serves
Urls == {"https://forms/a/viewform", "https://forms/b/viewform", "https://forms/c/viewform"}

\* sub entry of a group: sub[0], sub[1] (option labels, "" for free text), sub[2], sub[3]
SubEntry(id, options, required, name) ==
    [id |-> id, options |-> options, required |-> required, name |-> name]

\* form a: a required short answer and an optional dropdown
PageA ==
    [status |-> 200, hasVar |-> TRUE, email |-> 1,
     groups |-> << [name |-> "Name", type |-> "0",
                    subs |-> <<SubEntry("1", <<>>, 1, <<>>)>>],
                   [name |-> "Level", type |-> "3",
                    subs |-> <<SubEntry("2", <<"junior", "senior">>, 0, <<>>)>>] >>]

\* form b: one required short answer, a page break, e-mail collection switched on
PageB ==
    [status |-> 200, hasVar |-> TRUE, email |-> 2,
     groups |-> << [name |-> "Phone", type |-> "0",
                    subs |-> <<SubEntry("3", <<>>, 1, <<>>)>>],
                   [name |-> "Page 2", type |-> "8", subs |-> <<>>] >>]

\* form c: as many required short answers as BigFormLen
PageC ==
    [status |-> 200, hasVar |-> TRUE, email |-> 1,
     groups |-> [i \in 1..BigFormLen |->
                   [name |-> "Question", type |-> "0",
                    subs |-> <<SubEntry(ToString(100 + i), <<>>, 1, <<>>)>>]]]

PageOf(url) ==
    CASE url = "https://forms/a/viewform" -> PageA
      [] url = "https://forms/b/viewform" -> PageB
      [] OTHER -> PageC

\* what requests.get can answer for a URL: the page, an HTTP error (whatever
\* its body), or a page that loads without the public variable (a form behind
\* a login)
ErrorPage(url) == [PageOf(url) EXCEPT !.status = 403]
LoginPage == [status |-> 200, hasVar |-> FALSE, email |-> 0, groups |-> <<>>]
Fetch(url) == {PageOf(url), ErrorPage(url), LoginPage}
\* the URLs a handler is constructed with: a viewer URL, the link the share
\* dialog gives, a submission URL, and the form's address without a segment
HandlerUrls == {"https://forms/a/viewform", "https://forms/a/viewform?usp=sf_link",
                "https://forms/a/formResponse", "https://forms/a"}

\* the group at position i of a page, of the given type code; the ids of its
\* sub entries are unique in the page
GroupAt(type, i) ==
    LET id(j) == ToString(10 * i + j)
    IN  CASE type = "0" -> [name |-> "Name", type |-> type,
                            subs |-> <<SubEntry(id(1), <<>>, 1, <<>>)>>]
          [] type = "2" -> [name |-> "Remote", type |-> type,
                            subs |-> <<SubEntry(id(1), <<"yes", "no">>, 1, <<>>)>>]
          [] type = "3" -> [name |-> "Level", type |-> type,
                            subs |-> <<SubEntry(id(1), <<"junior", "senior">>, 0, <<>>)>>]
          [] type = "4" -> [name |-> "Skills", type |-> type,
                            subs |-> <<SubEntry(id(1), <<"go", "", "rust">>, 0, <<>>)>>]
          [] type = "7" -> [name |-> "Rate", type |-> type,
                            subs |-> <<SubEntry(id(1), <<"1", "2">>, 1, <<"row 1">>),
                                       SubEntry(id(2), <<"1", "2">>, 0, <<"row 2">>)>>]
          [] OTHER -> [name |-> "Page", type |-> type,
                       subs |-> <<SubEntry(id(1), <<>>, 0, <<>>)>>]

TypeCodes == {"0", "2", "3", "4", "7", FORM_SESSION_TYPE_ID}
GroupLists ==
    UNION {{[i \in 1..n |-> GroupAt(t[i], i)] : t \in [1..n -> TypeCodes]} : n \in 0..MaxGroups}

\* the pages a handler can be answered with
HandlerPages ==
    {[status |-> 200, hasVar |-> TRUE, email |-> e, groups |-> g] :
        e \in {1, 2}, g \in GroupLists}
    \cup {ErrorPage(u) : u \in Urls} \cup {LoginPage}

\* the statuses requests.post can answer
PostStatuses == {200, 400, 500}

\* ------------------------------------------------- external collaborators
\* free text the answer source returns for a query
AnswerTexts == {"ans"}
\* outcomes of ask_question's two calls: the query engine answers, the query
\* engine fails and the completion answers, both fail
AskOutcomes == {"engine", "llm", "fail"}
\* what the human types
HumanTexts == {"OK", "the phone number is wrong"}
\* what the classification completion returns: a text, no text, or it raises
VerdictTexts == {"OKAY", "FEEDBACK", " \\boxed{okay}\n", "NOT OKAY", "", "looks fine"}
VerdictOutcomes == {[raises |-> TRUE]} \cup {[raises |-> FALSE, text |-> None]}
                   \cup {[raises |-> FALSE, text |-> Some(t)] : t \in VerdictTexts}

\* --------------------------------------------------------------- state
VARIABLES
    \* st.session_state (app.py initialize_session_state)
    configured,            \* openrouter_key, llama_cloud_key and selected_model are set
    current_step,
    resume_index_path,     \* None or the index location
    form_data,             \* None or the list of question rows
    form_url,              \* None or the URL
    filled_form,           \* None or a dict
    workflow,              \* a workflow instance exists
    workflow_handler,      \* a handler (a started run) exists
    waiting_for_feedback,
    feedback_submitted,
    current_feedback,
    feedback_count,
    \* (resume_processed, final_form_filled and last_event_type are written and
    \* never read: they are left out)
    pc,                    \* the script: "idle", "rerun" (st.rerun pending), "streaming"
    posts,                 \* what the submit step did in the latest script run
    decoded,               \* history: the page the form step decoded last (None: none yet)
    \* a GoogleFormHandler object kept across calls, and what it reads
    handler,               \* None, or its fields url, form_data, entries, page_count
    web,                   \* None, or the page requests.get is answered with
    schemas,               \* history: what each call on a handler returned
    \* the run behind workflow_handler
    run,                   \* "none", "running", "done", "failed"
    ctx,                   \* the context store: form_data, total_fields, filled_form
    q_start,               \* events waiting for set_up
    q_parse,               \* events waiting for parse_form
    q_query,               \* events waiting for ask_question
    q_response,            \* events waiting for fill_in_application
    q_human,               \* events waiting for get_feedback
    buffer,                \* the buffer of ctx.collect_events
    stream,                \* the handler's event stream, read by the driver
    \* history of the run
    cycle,                 \* parse_form executions of the run
    dispatched,            \* QueryEvents sent by the last parse_form
    received,              \* ResponseEvents fill_in_application handled since then
    last,                  \* the last workflow step and what it did
    runs                   \* runs started in the session

session == <<configured, current_step, resume_index_path, form_data, form_url,
             filled_form, workflow, workflow_handler,
             waiting_for_feedback, feedback_submitted, current_feedback,
             feedback_count>>
wfvars == <<run, ctx, q_start, q_parse, q_query, q_response, q_human, buffer,
            stream, cycle, dispatched, received, last, runs>>
gfh == <<handler, web, schemas>>
vars == <<session, pc, posts, decoded, gfh, wfvars>>

NoStep == [step |-> "none"]
EmptyCtx == [k \in {} |-> None]

\* ------------------------------------------------ workflow: the events
StartEvent(fd, index, key1, key2, model) ==
    [type |-> "StartEvent", form_data |-> fd, resume_index_path |-> index,
     openrouter_key |-> key1, llama_cloud_key |-> key2, selected_model |-> model]
ParseFormEvent(fd) == [type |-> "ParseFormEvent", form_data |-> fd]
FeedbackEvent(text) == [type |-> "FeedbackEvent", feedback |-> text]
HumanResponseEvent(text) == [type |-> "HumanResponseEvent", response |-> text]
QueryEvent(query, field, entry_id, required) ==
    [type |-> "QueryEvent", query |-> query, query_type |-> "resume analysis",
     field |-> field, entry_id |-> entry_id, required |-> required]
ResponseEvent(response, field, entry_id, required) ==
    [type |-> "ResponseEvent", response |-> response, field |-> field,
     entry_id |-> entry_id, required |-> required]
InputRequiredEvent(result) ==
    [type |-> "InputRequiredEvent", request_type |-> "Feedback", result |-> result]
StopEvent(result) == [type |-> "StopEvent", result |-> result]
\* the stream finishing without a StopEvent (the case app.py handles after its loop)
EndOfStream == [type |-> "EndOfStream"]


\* ------------------------------------------- workflow: pure computations
\* the query with the feedback attached to free-text fields only
CompileQuery_text_only(field, feedback) ==
    LET selection_type == IF "Selection_Type" \in DOMAIN field
                          THEN field.Selection_Type ELSE Some("Text")
        template == IF selection_type \in {Some("Single Choice"), Some("Dropdown")}
                    THEN "choose one"
                    ELSE IF selection_type = Some("Multiple Choice")
                         THEN "choose all" ELSE "fact"
    IN  [template |-> template,
         entry_id |-> field.Entry_ID,
         question |-> field.Question,
         options |-> IF template = "fact" THEN None ELSE field.Options,
         feedback |-> IF template = "fact" THEN feedback ELSE None]

\* the query with a feedback block on the first cycle too
CompileQuery_block_always(field, feedback) ==
    LET selection_type == IF "Selection_Type" \in DOMAIN field
                          THEN field.Selection_Type ELSE Some("Text")
        template == IF selection_type \in {Some("Single Choice"), Some("Dropdown")}
                    THEN "choose one"
                    ELSE IF selection_type = Some("Multiple Choice")
                         THEN "choose all" ELSE "fact"
    IN  [template |-> template,
         entry_id |-> field.Entry_ID,
         question |-> field.Question,
         options |-> IF template = "fact" THEN None ELSE field.Options,
         feedback |-> IF IsNone(feedback) THEN Some("") ELSE feedback]

\* the query parse_form builds for one field; feedback is None on the first
\* cycle and the text of the FeedbackEvent on a revise cycle
CompileQuery(field, feedback) ==
    LET selection_type == IF "Selection_Type" \in DOMAIN field
                          THEN field.Selection_Type ELSE Some("Text")
        template == IF selection_type \in {Some("Single Choice"), Some("Dropdown")}
                    THEN "choose one"
                    ELSE IF selection_type = Some("Multiple Choice")
                         THEN "choose all" ELSE "fact"
    IN  [template |-> template,
         entry_id |-> field.Entry_ID,
         question |-> field.Question,
         options |-> IF template = "fact" THEN None ELSE field.Options,
         feedback |-> feedback]

\* a revise cycle asking again for the required fields only
parse_form_fields_required_only(ev, store) ==
    IF ev.type = "FeedbackEvent"
    THEN SelectSeq(store.form_data, LAMBDA row : row.Required = TRUE)
    ELSE ev.form_data

\* the fields parse_form works on: those stored in the context for a
\* FeedbackEvent, those of the event for a ParseFormEvent
parse_form_fields(ev, store) ==
    IF ev.type = "FeedbackEvent" THEN store.form_data ELSE ev.form_data

\* the barrier size counting the required fields only
total_fields_required(fields) ==
    Len(SelectSeq(fields, LAMBDA row : row.Required = TRUE))

\* ctx.set("total_fields", len(fields)), after the queries have been sent
total_fields(fields) == Len(fields)

\* the QueryEvents of one parse_form, one per field, in field order
CompileQueries(fields, feedback) ==
    [i \in 1..Len(fields) |->
        QueryEvent(CompileQuery(fields[i], feedback), fields[i].Question,
                   fields[i].Entry_ID, fields[i].Required)]

fallback_msg == "unable to process this question; retry or fill it in manually."
required_marker == "(required field)"

\* ask_question marking every fallback as required
AskQuestion_marker_always(ev, outcome, text) ==
    IF outcome \in {"engine", "llm"}
    THEN ResponseEvent(text, ev.field, ev.entry_id, ev.required)
    ELSE ResponseEvent(fallback_msg \o required_marker, ev.field, ev.entry_id, ev.required)

\* the ResponseEvent of ask_question for a QueryEvent
AskQuestion(ev, outcome, text) ==
    IF outcome \in {"engine", "llm"}
    THEN ResponseEvent(text, ev.field, ev.entry_id, ev.required)
    ELSE ResponseEvent(IF ev.required THEN fallback_msg \o required_marker ELSE fallback_msg,
                       ev.field, ev.entry_id, ev.required)

\* collect_events releasing one event early (an off-by-one in the count)
collect_events_early(buf, ev, n) ==
    LET b == Append(buf, ev)
    IN  IF Len(b) >= n - 1
        THEN [responses |-> Some(b), buffer |-> <<>>]
        ELSE [responses |-> None, buffer |-> b]

\* collect_events keeping the released events in its buffer
collect_events_buffer_kept(buf, ev, n) ==
    LET b == Append(buf, ev)
    IN  IF Len(b) >= n
        THEN [responses |-> Some(SubSeq(b, Len(b) - n + 1, Len(b))), buffer |-> b]
        ELSE [responses |-> None, buffer |-> b]

\* collect_events leaving the completing event in its buffer
collect_events_last_kept(buf, ev, n) ==
    LET b == Append(buf, ev)
    IN  IF Len(b) >= n
        THEN [responses |-> Some(SubSeq(b, 1, n)), buffer |-> <<ev>>]
        ELSE [responses |-> None, buffer |-> b]

\* ctx.collect_events(ev, [ResponseEvent] * n) on the buffer: the first n
\* buffered events once n are there, None (and the event kept) before
collect_events(buf, ev, n) ==
    LET b == Append(buf, ev)
    IN  IF Len(b) >= n
        THEN [responses |-> Some(SubSeq(b, 1, n)), buffer |-> SubSeq(b, n + 1, Len(b))]
        ELSE [responses |-> None, buffer |-> b]

\* the answers list built from the raw responses (both fallbacks of the step)
RawAnswers(responses) ==
    [i \in 1..Len(responses) |->
        [entry_id |-> responses[i].entry_id,
         question |-> responses[i].field,
         answer |-> responses[i].response]]

\* a completion text is a list of chunks: literal text or one JSON document
Lit(s) == [lit |-> s]
Doc(d) == [doc |-> d]
IsDoc(c) == "doc" \in DOMAIN c
\* JSON documents: an object (a dict) or any other value (list, string, number)
JsonObject(v) == [kind |-> "object", value |-> v]
JsonOther == [kind |-> "other"]

\* text.find(chunk): 0 when absent (Python: -1)
Find(text, c) ==
    IF \E i \in 1..Len(text) : text[i] = c
    THEN CHOOSE i \in 1..Len(text) : text[i] = c /\ \A j \in 1..(i - 1) : text[j] # c
    ELSE 0
RFind(text, c) ==
    IF \E i \in 1..Len(text) : text[i] = c
    THEN CHOOSE i \in 1..Len(text) : text[i] = c /\ \A j \in (i + 1)..Len(text) : text[j] # c
    ELSE 0

\* the removal of a \boxed{...} wrapper from the completion text
Unbox(text) ==
    LET f == Find(text, Lit("\\boxed{"))
        start_idx == f + 1
        end_idx == RFind(text, Lit("}"))
    IN  IF f > 0 /\ end_idx > start_idx
        THEN SubSeq(text, start_idx, end_idx - 1)
        ELSE text

\* json.loads: the document when the text is exactly one document, None for
\* JSONDecodeError
json_loads(text) == IF Len(text) = 1 /\ IsDoc(text[1]) THEN Some(text[1].doc) ELSE None

\* submission_data: entry_id -> answer, a later answer replacing an earlier one
SubmissionOf(answers) ==
    [k \in {answers[i].entry_id : i \in 1..Len(answers)} |->
        answers[CHOOSE i \in 1..Len(answers) :
                    /\ answers[i].entry_id = k
                    /\ \A j \in 1..Len(answers) : answers[j].entry_id = k => j <= i].answer]

\* the stored structure without its submission map
AnswerSet_display_only(display, submission) == [display |-> display]

\* final_data = {"display": ..., "submission": ...}
AnswerSet(display, submission) == [display |-> display, submission |-> submission]

FallbackAnswerSet(responses) ==
    AnswerSet([answers |-> RawAnswers(responses)], SubmissionOf(RawAnswers(responses)))

\* the consolidation skipping an entry without its keys instead of falling back
Consolidate_skip_bad(responses, text) ==
    IF IsNone(text) THEN FallbackAnswerSet(responses)
    ELSE LET parsed == json_loads(Unbox(text[1]))
         IN  IF IsNone(parsed) THEN FallbackAnswerSet(responses)
             ELSE LET result_json == parsed[1]
                  IN  IF result_json.kind # "object" THEN FallbackAnswerSet(responses)
                      ELSE IF "answers" \notin DOMAIN result_json.value
                      THEN FallbackAnswerSet(responses)
                      ELSE LET answers == SelectSeq(result_json.value.answers,
                                             LAMBDA a : {"entry_id", "answer"} \subseteq DOMAIN a)
                           IN  AnswerSet([answers |-> answers], SubmissionOf(answers))

\* final_data of fill_in_application for the collected responses and the
\* text of the summarizing completion (None: the result carries no text)
Consolidate(responses, text) ==
    IF IsNone(text) THEN FallbackAnswerSet(responses)           \* AttributeError
    ELSE LET parsed == json_loads(Unbox(text[1]))
         IN  IF IsNone(parsed) THEN FallbackAnswerSet(responses)  \* JSONDecodeError
             ELSE LET result_json == parsed[1]
                  IN  IF result_json.kind # "object" THEN FallbackAnswerSet(responses)
                      ELSE IF "answers" \notin DOMAIN result_json.value
                      THEN FallbackAnswerSet(responses)          \* KeyError
                      ELSE LET answers == result_json.value.answers
                           IN  IF \E i \in 1..Len(answers) :
                                      {"entry_id", "answer"} \ DOMAIN answers[i] # {}
                               THEN FallbackAnswerSet(responses) \* KeyError
                               ELSE AnswerSet(result_json.value, SubmissionOf(answers))

Reverse(xs) == [i \in 1..Len(xs) |-> xs[Len(xs) + 1 - i]]

\* what the summarizing completion may return for given responses: a text
\* (None: a result without text) and whether it is a usable answers document
UsableDocs(responses) ==
    LET raw == RawAnswers(responses)
    IN  { JsonObject([answers |-> raw]),
          JsonObject([answers |-> Reverse(raw)]),
          JsonObject([answers |-> [i \in 1..Len(raw) |->
                                     IF i = 1 THEN [raw[i] EXCEPT !.answer = ""] ELSE raw[i]]]),
          JsonObject([answers |-> Tail(raw)]),
          JsonObject([answers |-> <<>>]) }
UnusableDocs(responses) ==
    LET raw == RawAnswers(responses)
    IN  { JsonObject([answers |-> [i \in 1..Len(raw) |->
                                     IF i = Len(raw)
                                     THEN [entry_id |-> raw[i].entry_id, question |-> raw[i].question]
                                     ELSE raw[i]]]),
          JsonObject([answers |-> [i \in 1..Len(raw) |->
                                     IF i = Len(raw)
                                     THEN [question |-> raw[i].question, answer |-> raw[i].answer]
                                     ELSE raw[i]]]),
          JsonObject([summary |-> "done"]),
          JsonOther }
SummaryOutputs(responses) ==
    {[usable |-> TRUE, text |-> Some(<<Doc(d)>>)] : d \in UsableDocs(responses)}
    \cup {[usable |-> TRUE, text |-> Some(<<Lit("\\boxed{"), Doc(d), Lit("}")>>)] :
            d \in UsableDocs(responses)}
    \cup {[usable |-> FALSE, text |-> None],
          [usable |-> FALSE, text |-> Some(<<Lit("I could not produce JSON")>>)]}
    \cup {[usable |-> FALSE, text |-> Some(<<Doc(d)>>)] : d \in UnusableDocs(responses)}
    \cup {[usable |-> FALSE, text |-> Some(<<Lit("\\boxed{"), Doc(d), Lit("}")>>)] :
            d \in UnusableDocs(responses)}
    \cup {[usable |-> FALSE, text |-> Some(<<Lit("\\boxed{"), Doc(d)>>)] :
            d \in UsableDocs(responses)}
    \cup {[usable |-> FALSE, text |-> Some(<<Lit("Here it is:"), Doc(d)>>)] :
            d \in UsableDocs(responses)}

\* the normalisation without the change of case
NormalizeVerdict_case_kept(text) ==
    strip(replace(replace(strip(text), "\\boxed{", ""), "}", ""))

\* the verdict text as get_feedback normalises it
NormalizeVerdict(text) ==
    upper(strip(replace(replace(strip(text), "\\boxed{", ""), "}", "")))
IsOkay(text) == contains(NormalizeVerdict(text), "OKAY")

\* json.dumps / json.loads of the StopEvent result
json_dumps(v) == [json |-> v]
IsJsonStr(x) == DOMAIN x = {"json"}


\* the approval returning the whole stored answer set
ApprovedResult_whole(stored) ==
    IF "submission" \in DOMAIN stored
    THEN json_dumps(stored)
    ELSE json_dumps([error |-> "'submission'", message |-> "form data processing failed"])

\* what get_feedback returns on OKAY: the stored submission as JSON text, or
\* the error text when the stored form has no submission
ApprovedResult(stored) ==
    IF "submission" \in DOMAIN stored
    THEN json_dumps(stored.submission)
    ELSE json_dumps([error |-> "'submission'", message |-> "form data processing failed"])


\* ------------------------------------------------------- submit step
\* Python truthiness of an answer value
Falsy(v) == v = ""

\* the test with the emptiness check lost
IsMissing_absent_only(data, row) == row.Entry_ID \notin DOMAIN data

\* the test of the submit step on one required row
IsMissing(data, row) == row.Entry_ID \notin DOMAIN data \/ Falsy(data[row.Entry_ID])

\* the required-field test stopping at the first required row
missing_fields_first_row(required_fields, data) ==
    IF Len(required_fields) > 0 /\ IsMissing(data, required_fields[1])
    THEN <<required_fields[1].Question>> ELSE <<>>

\* missing_fields: the question of every required row without a value
missing_fields(required_fields, data) ==
    LET missing == SelectSeq(required_fields, LAMBDA row : IsMissing(data, row))
    IN  [i \in 1..Len(missing) |-> missing[i].Question]

\* the key the submit step sends a field under
WireKey(field_id) ==
    IF startswith(field_id, "entry.") THEN field_id ELSE "entry." \o field_id

\* formatted_data: the value of every required row that has one, re-keyed
formatted_data(required_fields, data) ==
    LET present == SelectSeq(required_fields, LAMBDA row : ~IsMissing(data, row))
    IN  [k \in {WireKey(present[i].Entry_ID) : i \in 1..Len(present)} |->
            data[present[CHOOSE i \in 1..Len(present) :
                            /\ WireKey(present[i].Entry_ID) = k
                            /\ \A j \in 1..Len(present) :
                                  WireKey(present[j].Entry_ID) = k => j <= i].Entry_ID]]

\* the submit step going on whatever the test found
CheckPassed_always(missing) == TRUE

\* "if missing_fields: ... return": the submit step goes on to the POST only
\* with an empty list
CheckPassed(missing) == Len(missing) = 0

\* submit_form: the POST (url, data), the status of its response and the
\* boolean the method returns
submit_form(url, data, status) ==
    [url |-> get_form_response_url(url), data |-> data, status |-> status,
     success |-> (status = 200)]

\* ------------------------------------------------------------ Init
SessionInit ==
    /\ configured = FALSE
    /\ current_step = 0
    /\ resume_index_path = None
    /\ form_data = None
    /\ form_url = None
    /\ filled_form = None
    /\ workflow = FALSE
    /\ workflow_handler = FALSE
    /\ waiting_for_feedback = FALSE
    /\ feedback_submitted = FALSE
    /\ current_feedback = None
    /\ feedback_count = 0
    /\ pc = "idle"
    /\ posts = <<>>
    /\ decoded = None
    /\ run = "none"
    /\ ctx = EmptyCtx
    /\ q_start = <<>>
    /\ q_parse = <<>>
    /\ q_query = <<>>
    /\ q_response = <<>>
    /\ q_human = <<>>
    /\ buffer = <<>>
    /\ stream = <<>>
    /\ cycle = 0
    /\ dispatched = 0
    /\ received = 0
    /\ last = NoStep
    /\ runs = 0

\* no GoogleFormHandler outlives the script run that constructs it
Init ==
    /\ SessionInit
    /\ handler = None
    /\ web = None
    /\ schemas = <<>>

\* ------------------------------------------------- workflow: the steps
\* the event loop runs the steps only while the script awaits the stream
WorkflowRuns == pc = "streaming" /\ run = "running"

\* how the stream of a run that raised ends: a StopEvent without result, or
\* no StopEvent at all
StreamEnds == {StopEvent(None), EndOfStream}

\* a step raised: the run fails and its pending work is cancelled
Fail(step, end) ==
    /\ run' = "failed"
    /\ q_start' = <<>>
    /\ q_parse' = <<>>
    /\ q_query' = <<>>
    /\ q_response' = <<>>
    /\ q_human' = <<>>
    /\ stream' = Append(stream, end)
    /\ last' = [step |-> step, raised |-> TRUE]
    /\ UNCHANGED <<ctx, buffer, cycle, dispatched, received, runs>>

set_up ==
    /\ WorkflowRuns
    /\ q_start # <<>>
    /\ LET ev == Head(q_start)
       IN  \E ready \in BOOLEAN, end \in StreamEnds :
             IF \/ IsNone(ev.resume_index_path)
                \/ IsNone(ev.form_data) \/ Len(ev.form_data[1]) = 0
                \/ ~ev.openrouter_key \/ ~ev.llama_cloud_key \/ ~ev.selected_model
                \/ ~ready          \* the connection test fails or the index is gone
             THEN Fail("set_up", end)
             ELSE /\ q_start' = Tail(q_start)
                  /\ q_parse' = Append(q_parse, ParseFormEvent(ev.form_data[1]))
                  /\ last' = [step |-> "set_up", raised |-> FALSE]
                  /\ UNCHANGED <<run, ctx, q_query, q_response, q_human, buffer, stream,
                                 cycle, dispatched, received>>
    /\ UNCHANGED <<session, pc, posts, decoded, gfh, runs>>

parse_form ==
    /\ WorkflowRuns
    /\ q_parse # <<>>
    /\ LET ev == Head(q_parse)
           revise == ev.type = "FeedbackEvent"
       IN  \E end \in StreamEnds :
             IF revise /\ ("form_data" \notin DOMAIN ctx \/ Len(ctx.form_data) = 0)
             THEN Fail("parse_form", end)
             ELSE LET fields == parse_form_fields(ev, ctx)
                      feedback == IF revise THEN Some(ev.feedback) ELSE None
                  IN  /\ ctx' = IF revise
                                THEN ("total_fields" :> total_fields(fields)) @@ ctx
                                ELSE ("total_fields" :> total_fields(fields)) @@ ("form_data" :> fields) @@ ctx
                      /\ q_parse' = Tail(q_parse)
                      /\ q_query' = q_query \o CompileQueries(fields, feedback)
                      /\ cycle' = cycle + 1
                      /\ dispatched' = Len(fields)
                      /\ received' = 0
                      /\ last' = [step |-> "parse_form", raised |-> FALSE]
                      /\ UNCHANGED <<run, q_start, q_response, q_human, buffer, stream>>
    /\ UNCHANGED <<session, pc, posts, decoded, gfh, runs>>

ask_question ==
    /\ WorkflowRuns
    /\ \E i \in 1..Len(q_query), outcome \in AskOutcomes, text \in AnswerTexts :
         LET ev == q_query[i]
             response == AskQuestion(ev, outcome, text)
         IN  /\ q_query' = SubSeq(q_query, 1, i - 1) \o SubSeq(q_query, i + 1, Len(q_query))
             /\ q_response' = Append(q_response, response)
             /\ last' = [step |-> "ask_question", raised |-> FALSE]
    /\ UNCHANGED <<run, ctx, q_start, q_parse, q_human, buffer, stream,
                   cycle, dispatched, received>>
    /\ UNCHANGED <<session, pc, posts, decoded, gfh, runs>>

fill_in_application ==
    /\ WorkflowRuns
    /\ q_response # <<>>
    /\ LET ev == Head(q_response)
       IN  \E end \in StreamEnds, raises \in BOOLEAN :
             IF "total_fields" \notin DOMAIN ctx \/ "form_data" \notin DOMAIN ctx
             THEN Fail("fill_in_application", end)
             ELSE LET c == collect_events(buffer, ev, ctx.total_fields)
                  IN  IF IsNone(c.responses)
                      THEN /\ buffer' = c.buffer
                           /\ q_response' = Tail(q_response)
                           /\ received' = received + 1
                           /\ last' = [step |-> "fill_in_application", raised |-> FALSE,
                                       consolidated |-> FALSE]
                           /\ UNCHANGED <<run, ctx, q_start, q_parse, q_query, q_human,
                                          stream, cycle, dispatched>>
                      ELSE IF raises       \* the summarizing completion raises
                      THEN Fail("fill_in_application", end)
                      ELSE \E out \in SummaryOutputs(c.responses[1]) :
                             LET final_data == Consolidate(c.responses[1], out.text)
                             IN  /\ buffer' = c.buffer
                                 /\ q_response' = Tail(q_response)
                                 /\ received' = received + 1
                                 /\ ctx' = ("filled_form" :> final_data) @@ ctx
                                 /\ stream' = Append(stream, InputRequiredEvent(final_data))
                                 /\ last' = [step |-> "fill_in_application", raised |-> FALSE,
                                             consolidated |-> TRUE, usable |-> out.usable]
                                 /\ UNCHANGED <<run, q_start, q_parse, q_query, q_human,
                                                cycle, dispatched>>
    /\ UNCHANGED <<session, pc, posts, decoded, gfh, runs>>

get_feedback ==
    /\ WorkflowRuns
    /\ q_human # <<>>
    /\ LET ev == Head(q_human)
       IN  \E o \in VerdictOutcomes, end \in StreamEnds :
             IF o.raises \/ IsNone(o.text) \/ "filled_form" \notin DOMAIN ctx
             THEN Fail("get_feedback", end)
             ELSE IF DOMAIN ctx.filled_form # {} /\ IsOkay(o.text[1])
             THEN \* StopEvent: the run is done and its pending work is dropped
                  /\ run' = "done"
                  /\ stream' = Append(stream, StopEvent(Some(ApprovedResult(ctx.filled_form))))
                  /\ q_start' = <<>>
                  /\ q_parse' = <<>>
                  /\ q_query' = <<>>
                  /\ q_response' = <<>>
                  /\ q_human' = <<>>
                  /\ last' = [step |-> "get_feedback", raised |-> FALSE, verdict |-> "Approve",
                              text |-> o.text[1]]
                  /\ UNCHANGED <<ctx, buffer, cycle, dispatched, received, runs>>
             ELSE /\ q_human' = Tail(q_human)
                  /\ q_parse' = Append(q_parse, FeedbackEvent(ev.response))
                  /\ last' = [step |-> "get_feedback", raised |-> FALSE, verdict |-> "Revise",
                              text |-> o.text[1]]
                  /\ UNCHANGED <<run, ctx, q_start, q_query, q_response, buffer, stream,
                                 cycle, dispatched, received>>
    /\ UNCHANGED <<session, pc, posts, decoded, gfh, runs>>


\* ---------------------------------------------------- driver: app.py
\* the sidebar: both keys entered and a model selected
EnterKeys ==
    /\ ~configured
    /\ pc = "idle"
    /\ configured' = TRUE
    /\ UNCHANGED <<current_step, resume_index_path, form_data, form_url, filled_form,
                   workflow, workflow_handler, waiting_for_feedback,
                   feedback_submitted, current_feedback, feedback_count>>
    /\ posts' = <<>>
    /\ UNCHANGED <<decoded, gfh>>
    /\ UNCHANGED <<pc, wfvars>>

\* add_back_button
Back ==
    /\ configured
    /\ pc = "idle"
    /\ current_step > 0
    /\ current_step' = current_step - 1
    /\ pc' = "rerun"
    /\ UNCHANGED <<configured, resume_index_path, form_data, form_url, filled_form,
                   workflow, workflow_handler, waiting_for_feedback,
                   feedback_submitted, current_feedback, feedback_count>>
    /\ posts' = <<>>
    /\ UNCHANGED <<decoded, gfh>>
    /\ UNCHANGED wfvars

\* the script run st.rerun() asked for, on a page whose script changes nothing
\* without a new input (steps 1, 2 and 4)
Rerun ==
    /\ pc = "rerun"
    /\ current_step # 2
    /\ pc' = "idle"
    /\ posts' = <<>>
    /\ UNCHANGED <<decoded, gfh>>
    /\ UNCHANGED <<session, wfvars>>

\* step 1: a resume is uploaded and process_resume succeeds or not
UploadResume ==
    /\ configured
    /\ pc = "idle"
    /\ current_step = 0
    /\ \E success \in BOOLEAN :
         IF success
         THEN /\ resume_index_path' = Some("resume_indexes")
              /\ current_step' = current_step + 1
              /\ pc' = "rerun"
         ELSE UNCHANGED <<resume_index_path, current_step, pc>>
    /\ UNCHANGED <<configured, form_data, form_url, filled_form, 
                   workflow, workflow_handler, waiting_for_feedback, feedback_submitted,
                   current_feedback, feedback_count>>
    /\ posts' = <<>>
    /\ UNCHANGED <<decoded, gfh>>
    /\ UNCHANGED wfvars

\* the form may hold fewer questions than this
FieldLimit == 20

\* step 2: a form URL is entered (and "continue" clicked on the preview)
ProcessForm ==
    /\ configured
    /\ pc = "idle"
    /\ current_step = 1
    /\ \E url \in Urls, continue \in BOOLEAN :
         /\ continue => form_url = Some(url)
         /\ \E page \in Fetch(url) :
              LET questions_df == get_form_questions_df(parse_form_entries(page), FALSE)
              IN  /\ decoded' = Some([url |-> url, status |-> page.status,
                                      hasVar |-> page.hasVar, groups |-> Len(page.groups),
                                      fields |-> Len(questions_df)])
                  /\ IF Len(questions_df) >= FieldLimit
                     THEN UNCHANGED <<form_data, form_url, current_step, pc>>
                     ELSE /\ form_data' = Some(questions_df)
                          /\ form_url' = Some(url)
                          /\ IF continue
                             THEN current_step' = current_step + 1 /\ pc' = "rerun"
                             ELSE UNCHANGED <<current_step, pc>>
    /\ UNCHANGED <<configured, resume_index_path, filled_form,
                   workflow, workflow_handler, waiting_for_feedback, feedback_submitted,
                   current_feedback, feedback_count>>
    /\ posts' = <<>>
    /\ UNCHANGED <<gfh, wfvars>>

\* workflow.run(...): a new run with its own context, the StartEvent queued
NewRun ==
    /\ run' = "running"
    /\ ctx' = EmptyCtx
    /\ q_start' = <<StartEvent(form_data, resume_index_path, configured, configured, configured)>>
    /\ q_parse' = <<>>
    /\ q_query' = <<>>
    /\ q_response' = <<>>
    /\ buffer' = <<>>
    /\ stream' = <<>>
    /\ cycle' = 0
    /\ dispatched' = 0
    /\ received' = 0
    /\ last' = NoStep
    /\ runs' = runs + 1

\* the flag left set when a response has been sent
SubmittedAfterSend_kept == TRUE

\* st.session_state.feedback_submitted = False, when a response has been sent
SubmittedAfterSend == FALSE

\* the counter left as it is when a response is sent
NextFeedbackCount_kept(count) == count

\* st.session_state.feedback_count += 1, when a response has been sent
NextFeedbackCount(count) == count + 1

\* step 3, a script run without a click: run_workflow up to the event loop
ReviewRun ==
    /\ configured
    /\ pc \in {"idle", "rerun"}
    /\ current_step = 2
    /\ (workflow /\ workflow_handler) \/ runs < MaxRuns
    /\ IF IsNone(form_data) \/ Len(form_data[1]) = 0 \/ IsNone(resume_index_path)
       THEN /\ pc' = "idle"
            /\ UNCHANGED <<session, wfvars>>
       ELSE LET fresh == ~workflow
                handler0 == IF fresh THEN FALSE ELSE workflow_handler
                count0 == IF fresh THEN 0 ELSE feedback_count
                feedback0 == IF fresh THEN None ELSE current_feedback
                waiting0 == IF fresh THEN FALSE ELSE waiting_for_feedback
                submitted0 == IF fresh THEN FALSE ELSE feedback_submitted
                pending == IF handler0 THEN q_human ELSE <<>>
            IN  /\ workflow' = TRUE
                /\ workflow_handler' = TRUE
                /\ current_feedback' = feedback0
                /\ IF handler0
                   THEN UNCHANGED <<run, ctx, q_start, q_parse, q_query, q_response,
                                    buffer, stream, cycle, dispatched, received, last, runs>>
                   ELSE NewRun
                /\ \E delivered \in BOOLEAN :
                     IF waiting0 /\ ~submitted0
                     THEN \* the review is shown and nothing was submitted
                          /\ pc' = "idle"
                          /\ q_human' = pending
                          /\ waiting_for_feedback' = waiting0
                          /\ feedback_submitted' = submitted0
                          /\ feedback_count' = count0
                     ELSE IF submitted0 /\ delivered
                     THEN /\ q_human' = Append(pending,
                                HumanResponseEvent(IF IsNone(feedback0) THEN "" ELSE feedback0[1]))
                          /\ feedback_submitted' = SubmittedAfterSend
                          /\ feedback_count' = NextFeedbackCount(count0)
                          /\ waiting_for_feedback' = waiting0
                          /\ pc' = "streaming"
                     ELSE IF submitted0
                     THEN \* send_event raised
                          /\ q_human' = pending
                          /\ feedback_submitted' = FALSE
                          /\ waiting_for_feedback' = TRUE
                          /\ feedback_count' = count0
                          /\ pc' = "idle"
                     ELSE /\ q_human' = pending
                          /\ waiting_for_feedback' = waiting0
                          /\ feedback_submitted' = submitted0
                          /\ feedback_count' = count0
                          /\ pc' = "streaming"
                /\ UNCHANGED <<configured, current_step, resume_index_path, form_data,
                               form_url, filled_form>>
    /\ posts' = <<>>
    /\ UNCHANGED <<decoded, gfh>>

\* step 3, the human clicks "submit" on a feedback text, empty or not
SubmitFeedback ==
    /\ configured
    /\ pc = "idle"
    /\ current_step = 2
    /\ ~IsNone(form_data) /\ Len(form_data[1]) > 0 /\ ~IsNone(resume_index_path)
    /\ workflow /\ workflow_handler
    /\ waiting_for_feedback
    /\ feedback_count < MaxCycles
    /\ \E feedback \in HumanTexts \cup {""} :
         IF feedback = ""
         THEN \* a warning: nothing is submitted
              UNCHANGED <<current_feedback, feedback_submitted, waiting_for_feedback, pc>>
         ELSE /\ current_feedback' = Some(feedback)
              /\ feedback_submitted' = TRUE
              /\ waiting_for_feedback' = FALSE
              /\ pc' = "rerun"
    /\ UNCHANGED <<configured, current_step, resume_index_path, form_data, form_url,
                   filled_form, workflow, workflow_handler,
                   feedback_count>>
    /\ posts' = <<>>
    /\ UNCHANGED <<decoded, gfh>>
    /\ UNCHANGED wfvars

\* json.loads of a StopEvent result that is a str; a dict is taken as it is
ParseResult(result) == IF IsJsonStr(result) THEN result.json ELSE result

\* the loop over handler.stream_events(): an InputRequiredEvent arrives
OnInputRequired ==
    /\ pc = "streaming"
    /\ stream # <<>>
    /\ Head(stream).type = "InputRequiredEvent"
    /\ stream' = Tail(stream)
    /\ filled_form' = Some(Head(stream).result)
    /\ waiting_for_feedback' = TRUE
    /\ pc' = "rerun"
    /\ UNCHANGED <<configured, current_step, resume_index_path, form_data, form_url,
                   workflow, workflow_handler, feedback_submitted,
                   current_feedback, feedback_count>>
    /\ posts' = <<>>
    /\ UNCHANGED <<decoded, gfh>>
    /\ UNCHANGED <<run, ctx, q_start, q_parse, q_query, q_response, q_human, buffer,
                   cycle, dispatched, received, last, runs>>

\* the step advanced once by run_workflow and once more by main
StepAfterStop_twice(step) == step + 2

\* st.session_state.current_step += 1, when a StopEvent with a result arrived
StepAfterStop(step) == step + 1

\* the loop over handler.stream_events(): a StopEvent arrives
OnStop ==
    /\ pc = "streaming"
    /\ stream # <<>>
    /\ Head(stream).type = "StopEvent"
    /\ stream' = Tail(stream)
    /\ IF ~IsNone(Head(stream).result)
       THEN LET final_result == ParseResult(Head(stream).result[1])
            IN  /\ filled_form' = Some(final_result)
                /\ current_step' = StepAfterStop(current_step)
                /\ workflow' = FALSE
                /\ workflow_handler' = FALSE
                /\ waiting_for_feedback' = FALSE
                /\ feedback_submitted' = FALSE
                /\ pc' = "rerun"
       ELSE /\ pc' = "idle"
            /\ UNCHANGED <<filled_form, current_step, workflow,
                           workflow_handler, waiting_for_feedback, feedback_submitted>>
    /\ UNCHANGED <<configured, resume_index_path, form_data, form_url, current_feedback,
                   feedback_count>>
    /\ posts' = <<>>
    /\ UNCHANGED <<decoded, gfh>>
    /\ UNCHANGED <<run, ctx, q_start, q_parse, q_query, q_response, q_human, buffer,
                   cycle, dispatched, received, last, runs>>

\* the stream ends without a StopEvent: awaiting the handler raises for a
\* failed run, and run_workflow returns the filled form it already holds;
\* main() moves to the submit step when that dict has a "submission" key
OnStreamEnd ==
    /\ pc = "streaming"
    /\ stream # <<>>
    /\ Head(stream).type = "EndOfStream"
    /\ stream' = Tail(stream)
    /\ LET result == IF TruthyDict(filled_form) THEN filled_form ELSE None
       IN  IF ~IsNone(result) /\ "submission" \in DOMAIN result[1]
           THEN /\ filled_form' = result
                /\ IF current_step < 3
                   THEN current_step' = 3 /\ pc' = "rerun"
                   ELSE UNCHANGED current_step /\ pc' = "idle"
           ELSE /\ pc' = "idle"
                /\ UNCHANGED <<filled_form, current_step>>
    /\ UNCHANGED <<configured, resume_index_path, form_data, form_url, workflow,
                   workflow_handler, waiting_for_feedback, feedback_submitted,
                   current_feedback, feedback_count>>
    /\ posts' = <<>>
    /\ UNCHANGED <<decoded, gfh>>
    /\ UNCHANGED <<run, ctx, q_start, q_parse, q_query, q_response, q_human, buffer,
                   cycle, dispatched, received, last, runs>>

\* step 4 without data: the button back to the review
ReturnToReview ==
    /\ configured
    /\ pc = "idle"
    /\ current_step = 3
    /\ ~TruthyDict(filled_form)
    /\ current_step' = 2
    /\ pc' = "rerun"
    /\ UNCHANGED <<configured, resume_index_path, form_data, form_url, filled_form,
                   workflow, workflow_handler, waiting_for_feedback,
                   feedback_submitted, current_feedback, feedback_count>>
    /\ posts' = <<>>
    /\ UNCHANGED <<decoded, gfh>>
    /\ UNCHANGED wfvars

\* step 4: "submit" is clicked; the form is decoded again for its required
\* rows, the required-field test runs and, with nothing missing, the POST is sent
SubmitApplication ==
    /\ configured
    /\ pc = "idle"
    /\ current_step = 3
    /\ TruthyDict(filled_form)
    /\ ~IsNone(form_url)
    /\ \E page \in Fetch(form_url[1]), status \in PostStatuses :
         LET entries == parse_form_entries(page)
             required_fields == get_form_questions_df(entries, TRUE)
             data == filled_form[1]
             missing == missing_fields(required_fields, data)
         IN  posts' = <<[entries |-> entries,
                         form_data |-> data,
                         run |-> run,
                         missing_fields |-> missing,
                         post |-> IF ~CheckPassed(missing) THEN None
                                  ELSE Some(submit_form(form_url[1],
                                              formatted_data(required_fields, data), status))]>>
    /\ UNCHANGED <<configured, current_step, resume_index_path, form_data, form_url,
                   filled_form, workflow, workflow_handler,
                   waiting_for_feedback, feedback_submitted, current_feedback,
                   feedback_count>>
    /\ UNCHANGED <<pc, decoded, gfh, wfvars>>

Next ==
    \/ EnterKeys
    \/ Back
    \/ Rerun
    \/ UploadResume
    \/ ProcessForm
    \/ ReviewRun
    \/ SubmitFeedback
    \/ OnInputRequired
    \/ OnStop
    \/ OnStreamEnd
    \/ ReturnToReview
    \/ SubmitApplication
    \/ set_up
    \/ parse_form
    \/ ask_question
    \/ fill_in_application
    \/ get_feedback

Spec == Init /\ [][Next]_vars

\* the event loop runs every workflow step that stays ready: a step with an
\* event waiting is started, and the call it makes returns or raises
FairSpec ==
    /\ Init /\ [][Next]_vars
    /\ WF_vars(set_up)
    /\ WF_vars(parse_form)
    /\ WF_vars(ask_question)
    /\ WF_vars(fill_in_application)
    /\ WF_vars(get_feedback)

\* ----------------------------------------------- one handler, called again
\* A GoogleFormHandler that is kept: it is constructed for a URL, its page is
\* the same at every fetch, and parse_form_entries and get_form_questions_df
\* are called on it any number of times; parse_form compiles the queries of
\* the frame it returned.
HandlerInit ==
    /\ SessionInit
    /\ \E url \in HandlerUrls : handler = Some(GoogleFormHandler(url))
    /\ \E page \in HandlerPages : web = Some(page)
    /\ schemas = <<>>

\* one call: its name and argument, the value returned, the handler's
\* page_count afterwards, whether the handler had parsed before
Call(op, only_required, r) ==
    [op |-> op, only_required |-> only_required, returned |-> r.returned,
     page_count |-> r.self.page_count, reused |-> ~IsNone(handler[1].entries)]

Construct ==
    /\ ~IsNone(handler)
    /\ \E url \in HandlerUrls : handler' = Some(GoogleFormHandler(url))
    /\ UNCHANGED <<web, schemas, session, pc, posts, decoded, wfvars>>

CallParseFormEntries ==
    /\ ~IsNone(handler)
    /\ Len(schemas) < MaxDecodes
    /\ LET r == HandlerParse(handler[1], web[1])
       IN  /\ handler' = Some(r.self)
           /\ schemas' = Append(schemas, Call("parse_form_entries", FALSE, r))
    /\ UNCHANGED <<web, session, pc, posts, decoded, wfvars>>

CallGetFormQuestionsDf ==
    /\ ~IsNone(handler)
    /\ Len(schemas) < MaxDecodes
    /\ \E only_required \in BOOLEAN :
         LET r == HandlerQuestions(handler[1], web[1], only_required)
         IN  /\ handler' = Some(r.self)
             /\ schemas' = Append(schemas, Call("get_form_questions_df", only_required, r))
    /\ UNCHANGED <<web, session, pc, posts, decoded, wfvars>>

\* the queries parse_form compiles from the frame of all questions
CallParseForm ==
    /\ ~IsNone(handler)
    /\ schemas # <<>>
    /\ Len(schemas) < MaxDecodes
    /\ LET frame == schemas[Len(schemas)]
       IN  /\ frame.op = "get_form_questions_df"
           /\ ~frame.only_required
           /\ \E feedback \in {None} \cup {Some(t) : t \in HumanTexts} :
                schemas' = Append(schemas,
                    [frame EXCEPT !.op = "parse_form",
                                  !.returned = CompileQueries(frame.returned, feedback)])
    /\ UNCHANGED <<handler, web, session, pc, posts, decoded, wfvars>>

HandlerNext ==
    \/ Construct
    \/ CallParseFormEntries
    \/ CallGetFormQuestionsDf
    \/ CallParseForm

HandlerSpec == HandlerInit /\ [][HandlerNext]_vars


\* ---------------------------------------------------------- properties
\* fill_in_application handled a ResponseEvent without raising
FillInStep ==
    /\ q_response # <<>>
    /\ q_response' = Tail(q_response)
    /\ last'.step = "fill_in_application"
    /\ ~last'.raised

\* ask_question handled a QueryEvent
AskStep ==
    /\ Len(q_query') = Len(q_query) - 1
    /\ last'.step = "ask_question"

\* the entries of a decode (none when it failed)
EntriesOf(entries) == IF IsNone(entries) THEN <<>> ELSE entries[1]

\* a field with a provider-reserved, non-numeric id
IsReservedId(id) == id \in {"emailAddress", "pageHistory"}

\* C1: barrier. fill_in_application consolidates (stores an AnswerSet and
\* emits an InputRequiredEvent) only for the ResponseEvent that completes the
\* N dispatched queries of the cycle; for every earlier ResponseEvent it
\* leaves the context and the stream as they are.
C1_Barrier ==
    [][FillInStep =>
         IF received' < dispatched
         THEN /\ ~last'.consolidated
              /\ ctx' = ctx
              /\ stream' = stream
         ELSE /\ received' = dispatched
              /\ Len(buffer) + 1 = dispatched
              /\ last'.consolidated
              /\ stream' = Append(stream, InputRequiredEvent(ctx'.filled_form))]_vars

C1_Witness ==
    /\ last.step = "fill_in_application"
    /\ ~last.raised
    /\ last.consolidated
    /\ dispatched = 2
    /\ received = 2

\* C2: approval precedes submission. The submit step is reached with a filled
\* form, and a POST is sent, only with the submission map of a run that ended
\* with an Approve verdict.
C2_ApprovalPrecedesSubmit ==
    /\ (current_step = 3 /\ TruthyDict(filled_form)) =>
          /\ run = "done"
          /\ last.step = "get_feedback"
          /\ last.verdict = "Approve"
          /\ filled_form[1] = ctx.filled_form.submission
    /\ (posts # <<>> /\ ~IsNone(posts[1].post)) =>
          /\ posts[1].run = "done"
          /\ posts[1].form_data = ctx.filled_form.submission

\* C3: the submit step fails with the missing-fields error exactly when a
\* required field of the schema has its entry id absent from the submitted
\* map or mapped to an empty value, and the error lists the question of every
\* such field and of no other.
C3_MissingRequiredFields ==
    posts # <<>> =>
        LET r == posts[1]
            fields == EntriesOf(r.entries)
            Lacking == {i \in 1..Len(fields) :
                          /\ fields[i].required
                          /\ \/ EntryIdOf(fields[i]) \notin DOMAIN r.form_data
                             \/ r.form_data[EntryIdOf(fields[i])] = ""}
        IN  /\ IsNone(r.post) <=> Lacking # {}
            /\ Len(r.missing_fields) = Cardinality(Lacking)
            /\ \A i \in Lacking : \E j \in 1..Len(r.missing_fields) :
                  r.missing_fields[j] = QuestionRow(fields[i]).Question
            /\ \A j \in 1..Len(r.missing_fields) : \E i \in Lacking :
                  r.missing_fields[j] = QuestionRow(fields[i]).Question

C3_Witness ==
    /\ posts # <<>>
    /\ Len(posts[1].missing_fields) = 1
    /\ Cardinality({i \in 1..Len(EntriesOf(posts[1].entries)) :
                      EntriesOf(posts[1].entries)[i].required}) = 2
    /\ posts[1].run = "done"

\* C4: on a revise cycle parse_form dispatches one query per field, for all
\* fields in order, and each of them carries the text the human typed.
C4_FeedbackInEveryQuery ==
    [][(cycle' = cycle + 1 /\ cycle >= 1) =>
         LET fields == ctx.form_data
             sent == SubSeq(q_query', Len(q_query) + 1, Len(q_query'))
         IN  /\ Len(sent) = Len(fields)
             /\ \A i \in 1..Len(sent) :
                  /\ sent[i].entry_id = fields[i].Entry_ID
                  /\ sent[i].query.entry_id = fields[i].Entry_ID
                  /\ sent[i].query.feedback = current_feedback]_vars

C4_Witness ==
    /\ cycle = 2
    /\ last.step = "parse_form"
    /\ Len(q_query) = 2
    /\ \A i \in 1..Len(q_query) :
         q_query[i].query.feedback = Some("the phone number is wrong")

\* C5: when the classification call of get_feedback raises or returns no
\* text, the verdict is Revise: a FeedbackEvent is emitted and the run goes on.
C5_ClassifierFailureIsRevise ==
    (last.step = "get_feedback" /\ last.raised) =>
        /\ run = "running"
        /\ q_parse # <<>>
        /\ q_parse[Len(q_parse)].type = "FeedbackEvent"

\* C6: whatever text the summarizing call returns for the collected
\* responses, the step stores an AnswerSet and emits it in an
\* InputRequiredEvent; when the text is not a usable answers document the
\* AnswerSet holds the raw per-field answers, one per collected response.
C6_ConsolidationFallback ==
    [][(FillInStep /\ Len(buffer) + 1 >= ctx.total_fields) =>
         LET rs == Append(buffer, Head(q_response))
         IN  /\ "filled_form" \in DOMAIN ctx'
             /\ DOMAIN ctx'.filled_form = {"display", "submission"}
             /\ stream' = Append(stream, InputRequiredEvent(ctx'.filled_form))
             /\ ~last'.usable =>
                  /\ ctx'.filled_form.display =
                        [answers |-> [i \in 1..Len(rs) |->
                                        [entry_id |-> rs[i].entry_id,
                                         question |-> rs[i].field,
                                         answer |-> rs[i].response]]]
                  /\ DOMAIN ctx'.filled_form.submission = {rs[i].entry_id : i \in 1..Len(rs)}
                  /\ \A i \in 1..Len(rs) :
                        ctx'.filled_form.submission[rs[i].entry_id] = rs[i].response]_vars

C6_Witness ==
    /\ last.step = "fill_in_application"
    /\ ~last.raised
    /\ last.consolidated
    /\ ~last.usable
    /\ Len(ctx.filled_form.display.answers) = 2
    /\ stream # <<>>

\* the place of an entry id in the field list
FieldIndex(fields, entry_id) == CHOOSE i \in 1..Len(fields) : fields[i].Entry_ID = entry_id

\* C7: the answers of every stored AnswerSet.display are in schema field order.
C7_DisplayInFieldOrder ==
    ("filled_form" \in DOMAIN ctx /\ "form_data" \in DOMAIN ctx) =>
        LET answers == ctx.filled_form.display.answers
        IN  \A i, j \in 1..Len(answers) :
              i < j => FieldIndex(ctx.form_data, answers[i].entry_id)
                         < FieldIndex(ctx.form_data, answers[j].entry_id)

\* C8: entry-id formatting at both consumers. The Entry_ID of a decoded field
\* and the key it is posted under are "entry." + id for an ordinary field and
\* the id itself for a field with a reserved id.
C8_EntryIdFormatting ==
    /\ ~IsNone(form_data) =>
          \A i \in 1..Len(form_data[1]) :
             \/ startswith(form_data[1][i].Entry_ID, "entry.")
             \/ IsReservedId(form_data[1][i].Entry_ID)
    /\ (posts # <<>> /\ ~IsNone(posts[1].post)) =>
          \A k \in DOMAIN posts[1].post[1].data :
             \E i \in 1..Len(EntriesOf(posts[1].entries)) :
                LET e == EntriesOf(posts[1].entries)[i]
                IN  k = IF IsReservedId(e.id) THEN e.id ELSE "entry." \o e.id

\* C9: every QueryEvent yields exactly one ResponseEvent with the same field,
\* entry id and required flag; when both calls fail the response is the
\* fallback text, marked exactly when the field is required, and the run goes
\* on, so that every dispatched query of a cycle reaches the barrier.
C9_OneResponsePerQuery ==
    /\ [][AskStep =>
            \E i \in 1..Len(q_query) :
               LET q == q_query[i]
                   r == q_response'[Len(q_response')]
               IN  /\ q_query' = SubSeq(q_query, 1, i - 1) \o SubSeq(q_query, i + 1, Len(q_query))
                   /\ q_response' = Append(q_response, r)
                   /\ r.type = "ResponseEvent"
                   /\ r.field = q.field
                   /\ r.entry_id = q.entry_id
                   /\ r.required = q.required
                   /\ \/ r.response \in AnswerTexts
                      \/ r.response = IF q.required THEN fallback_msg \o required_marker
                                      ELSE fallback_msg
                   /\ run' = "running"]_vars
    /\ []((run = "running" /\ cycle > 0) =>
            Len(q_query) + Len(q_response) + received = dispatched)

C9_Witness ==
    /\ run = "running"
    /\ dispatched = 2
    /\ Len(buffer) = 1
    /\ buffer[1].response = fallback_msg
    /\ Len(q_response) = 1
    /\ q_response[1].response = fallback_msg \o required_marker

\* the required rows of a field list all have a non-empty value in a map
RequiredAnswered(rows, data) ==
    \A i \in 1..Len(rows) :
       rows[i].Required => (rows[i].Entry_ID \in DOMAIN data /\ data[rows[i].Entry_ID] # "")

\* C10 as stated: a run ends Approved only with a submission map in which
\* every required field of the schema has a non-empty value.
C10_ApprovedIsValidated ==
    run = "done" => RequiredAnswered(ctx.form_data, ctx.filled_form.submission)

\* C10 as amended: on Approve the run ends with the current submission map as
\* it is, unvalidated; the required fields are checked by the submit step,
\* which posts only when each of them has a non-empty value.
C10_ValidatedAtSubmit ==
    /\ [][(run = "running" /\ run' = "done") =>
            /\ ctx' = ctx
            /\ stream' = Append(stream,
                  StopEvent(Some([json |-> ctx.filled_form.submission])))]_vars
    /\ []((posts # <<>> /\ ~IsNone(posts[1].post)) =>
            RequiredAnswered(get_form_questions_df(posts[1].entries, FALSE),
                             posts[1].form_data))

C10_Witness ==
    /\ run = "done"
    /\ last.step = "get_feedback"
    /\ last.verdict = "Approve"
    /\ ~RequiredAnswered(ctx.form_data, ctx.filled_form.submission)

\* the token OKAY occurs in a text, in any case
HasOkayToken(text) ==
    \E i \in 1..(Len(text) - 3) :
       /\ SubSeq(text, i, i) \in {"o", "O"}
       /\ SubSeq(text, i + 1, i + 1) \in {"k", "K"}
       /\ SubSeq(text, i + 2, i + 2) \in {"a", "A"}
       /\ SubSeq(text, i + 3, i + 3) \in {"y", "Y"}

\* C11: verdict rule. Whatever text the classification call returns, the run
\* ends (Approve) exactly when the text holds the token OKAY in any case,
\* inside or outside a boxed wrapper; every other text, with FEEDBACK or with
\* neither token, gives a FeedbackEvent with the human's text (Revise).
C11_VerdictRule ==
    /\ [](( last.step = "get_feedback" /\ ~last.raised) =>
            /\ HasOkayToken(last.text) <=> run = "done"
            /\ HasOkayToken(last.text) <=> last.verdict = "Approve"
            /\ ~HasOkayToken(last.text) => last.verdict = "Revise")
    /\ [][(q_human # <<>> /\ last'.step = "get_feedback" /\ ~last'.raised
             /\ ~HasOkayToken(last'.text)) =>
            /\ q_parse' = Append(q_parse, FeedbackEvent(Head(q_human).response))
            /\ run' = "running"
            /\ stream' = stream]_vars

C11_Witness ==
    /\ last.step = "get_feedback"
    /\ ~last.raised
    /\ last.text = " \\boxed{okay}\n"
    /\ last.verdict = "Approve"
    /\ run = "done"

\* the wire key the entry-id formatting rule gives a decoded entry
ExpectedKey(e) == IF IsReservedId(e.id) THEN e.id ELSE "entry." \o e.id

\* C12: no approved answer is dropped. When the POST is sent, every field of
\* the schema, required or optional, that has a non-empty value in the
\* submitted map is in the payload under its formatted key with that value.
C12_NoAnswerDropped ==
    (posts # <<>> /\ ~IsNone(posts[1].post)) =>
        LET r == posts[1]
            fields == EntriesOf(r.entries)
            payload == r.post[1].data
        IN  \A i \in 1..Len(fields) :
              (/\ fields[i].id # "pageHistory"
               /\ ExpectedKey(fields[i]) \in DOMAIN r.form_data
               /\ r.form_data[ExpectedKey(fields[i])] # "") =>
                  /\ ExpectedKey(fields[i]) \in DOMAIN payload
                  /\ payload[ExpectedKey(fields[i])] = r.form_data[ExpectedKey(fields[i])]

\* C13: for a schema with pages, the payload of the POST holds the
\* page-history field with the default value computed by the decoder.
C13_PageHistoryInjected ==
    (posts # <<>> /\ ~IsNone(posts[1].post)) =>
        LET fields == EntriesOf(posts[1].entries)
            payload == posts[1].post[1].data
        IN  \A i \in 1..Len(fields) :
              fields[i].id = "pageHistory" =>
                 /\ "pageHistory" \in DOMAIN payload
                 /\ payload["pageHistory"] = fields[i].default_value

\* no row of a field list is the page-history field
NoPageHistoryRow(rows) == \A i \in 1..Len(rows) : rows[i].Entry_ID # "pageHistory"
\* no event of a queue, and no answer of an AnswerSet, is for the page-history field
NoPageHistoryEvent(q) == \A i \in 1..Len(q) : q[i].entry_id # "pageHistory"
NoPageHistoryAnswer(answer_set) ==
    "display" \in DOMAIN answer_set =>
        /\ \A i \in 1..Len(answer_set.display.answers) :
              "entry_id" \in DOMAIN answer_set.display.answers[i] =>
                  answer_set.display.answers[i].entry_id # "pageHistory"
        /\ "pageHistory" \notin DOMAIN answer_set.submission

\* C14: the page-history field is never surfaced. The field list stored by
\* the driver and handed to the workflow has no page-history row; no
\* QueryEvent or ResponseEvent is for it and no AnswerSet, stored or shown for
\* review, holds it, in the first cycle and in every revise cycle.
C14_PageHistoryNeverSurfaced ==
    /\ ~IsNone(form_data) => NoPageHistoryRow(form_data[1])
    /\ \A i \in 1..Len(q_start) :
          ~IsNone(q_start[i].form_data) => NoPageHistoryRow(q_start[i].form_data[1])
    /\ \A i \in 1..Len(q_parse) :
          q_parse[i].type = "ParseFormEvent" => NoPageHistoryRow(q_parse[i].form_data)
    /\ "form_data" \in DOMAIN ctx => NoPageHistoryRow(ctx.form_data)
    /\ NoPageHistoryEvent(q_query)
    /\ NoPageHistoryEvent(q_response)
    /\ NoPageHistoryEvent(buffer)
    /\ "filled_form" \in DOMAIN ctx => NoPageHistoryAnswer(ctx.filled_form)
    /\ \A i \in 1..Len(stream) :
          stream[i].type = "InputRequiredEvent" => NoPageHistoryAnswer(stream[i].result)
    /\ ~IsNone(filled_form) => NoPageHistoryAnswer(filled_form[1])

C14_Witness ==
    /\ form_url = Some("https://forms/b/viewform")
    /\ cycle = 2
    /\ waiting_for_feedback
    /\ ~IsNone(filled_form)
    /\ "display" \in DOMAIN filled_form[1]
    /\ Len(filled_form[1].display.answers) = 2

\* the last decode of the form step got a status other than 200 or a page
\* without the schema variable
DecodeFailed ==
    /\ ~IsNone(decoded)
    /\ decoded[1].status # 200 \/ ~decoded[1].hasVar

\* C15: a decode whose page has a status other than 200, or lacks the schema
\* variable, yields no field: the driver holds an empty field list after it,
\* and no workflow run is started from it.
C15_FailedDecodeNoSchema ==
    /\ [](DecodeFailed => form_data = Some(<<>>))
    /\ [][runs' = runs + 1 =>
            /\ ~DecodeFailed
            /\ ~IsNone(form_data)
            /\ Len(form_data[1]) > 0
            /\ q_start' = <<StartEvent(form_data, resume_index_path, TRUE, TRUE, TRUE)>>]_vars

C15_Witness ==
    /\ ~IsNone(decoded)
    /\ decoded[1].status = 403
    /\ decoded[1].groups > 0
    /\ current_step = 2
    /\ pc = "idle"
    /\ run = "none"

\* C16: a run that ends Approved returns a submission map with exactly one
\* entry per field of the schema, keyed by the field's entry id.
C16_OneEntryPerField ==
    (run = "done" /\ last.step = "get_feedback" /\ last.verdict = "Approve") =>
        /\ DOMAIN ctx.filled_form.submission =
              {ctx.form_data[i].Entry_ID : i \in 1..Len(ctx.form_data)}
        /\ stream # <<>> =>
              stream[Len(stream)] = StopEvent(Some(json_dumps(ctx.filled_form.submission)))

\* C17: cycle counting. Within a run the number of Answering cycles and the
\* driver's feedback counter never decrease and move by one at a time; a
\* cycle after the first starts only from the FeedbackEvent of a Revise
\* verdict; every response sent is counted once, so that a run approved after
\* k Revise verdicts ends with k + 1 cycles and a counter of k + 1.
C17_CycleCounter ==
    /\ [][runs' = runs =>
            /\ cycle' \in {cycle, cycle + 1}
            /\ feedback_count' \in {feedback_count, feedback_count + 1}
            /\ (cycle' = cycle + 1 /\ cycle >= 1) =>
                  /\ q_parse # <<>>
                  /\ Head(q_parse).type = "FeedbackEvent"
                  /\ q_parse' = Tail(q_parse)
            /\ (last'.step = "get_feedback" /\ ~last'.raised /\ last' # last
                  /\ last'.verdict = "Revise") =>
                  /\ Len(q_parse') = Len(q_parse) + 1
                  /\ cycle' = cycle]_vars
    /\ []((run = "running" /\ cycle >= 1) =>
            feedback_count = (cycle - 1) + Len(q_parse) + Len(q_human))
    /\ [](run = "done" => feedback_count = cycle)

C17_Witness ==
    /\ run = "done"
    /\ last.step = "get_feedback"
    /\ last.verdict = "Approve"
    /\ cycle = 2
    /\ feedback_count = 2
    /\ current_feedback = Some("OK")

\* the run is suspended for review: its last step emitted the
\* InputRequiredEvent and no response has been handled since
Reviewing ==
    /\ run = "running"
    /\ last.step = "fill_in_application"
    /\ ~last.raised
    /\ last.consolidated

\* some step of the workflow has an event to handle
SomeStepEnabled ==
    \/ q_start # <<>>
    \/ q_parse # <<>>
    \/ q_query # <<>>
    \/ q_response # <<>>
    \/ q_human # <<>>

\* C18: Reviewing is the only suspension point. After the InputRequiredEvent
\* the workflow does nothing (no query, no classification, no new cycle, no
\* stream event) until a HumanResponseEvent is delivered, and the step that
\* then runs is get_feedback; in every other state of a running run some step
\* has an event to handle.
C18_OnlyReviewingWaits ==
    /\ []((Reviewing /\ q_human = <<>>) =>
            (q_start = <<>> /\ q_parse = <<>> /\ q_query = <<>> /\ q_response = <<>>))
    /\ [][(Reviewing /\ q_human = <<>> /\ runs' = runs) =>
            /\ UNCHANGED <<run, ctx, q_start, q_parse, q_query, q_response, buffer,
                           cycle, dispatched, received, last>>
            /\ \/ stream' = stream
               \/ stream # <<>> /\ stream' = Tail(stream)]_vars
    /\ [][(Reviewing /\ runs' = runs /\ <<cycle, received, q_parse, run>>' # <<cycle, received, q_parse, run>>) =>
            /\ q_human # <<>>
            /\ last'.step = "get_feedback"]_vars
    /\ []((run = "running" /\ ~Reviewing) => SomeStepEnabled)

C18_Witness ==
    /\ Reviewing
    /\ cycle = 2
    /\ q_human = <<>>
    /\ waiting_for_feedback
    /\ pc = "idle"
    /\ stream = <<>>

\* a HumanResponseEvent is delivered to the run
SendsResponse == Len(q_human') = Len(q_human) + 1

\* C19: one response per suspension. The driver delivers a HumanResponseEvent
\* only when the run is suspended for review, the InputRequiredEvent of that
\* suspension has been received and its AnswerSet is the one shown, the user
\* has submitted a non-empty text and no response for that suspension has
\* been delivered yet; the event carries that text.
C19_OneResponsePerSuspension ==
    /\ [][SendsResponse =>
            /\ Reviewing
            /\ q_human = <<>>
            /\ \A i \in 1..Len(stream) : stream[i].type # "InputRequiredEvent"
            /\ filled_form = Some(ctx.filled_form)
            /\ feedback_submitted
            /\ ~feedback_submitted'
            /\ ~IsNone(current_feedback)
            /\ current_feedback[1] # ""
            /\ q_human' = <<HumanResponseEvent(current_feedback[1])>>
            /\ feedback_count' = feedback_count + 1]_vars
    /\ [](Len(q_human) <= 1)
    /\ [](feedback_submitted => (Reviewing /\ q_human = <<>> /\ ~waiting_for_feedback))

C19_Witness ==
    /\ q_human = <<HumanResponseEvent("OK")>>
    /\ feedback_count = 2
    /\ cycle = 2
    /\ pc = "streaming"

\* C20: the field limit. No run is started with more than 20 fields, and a
\* decoded form with at most 20 fields, 20 included, is admitted: its rows and
\* its URL are stored for the run.
C20_FieldLimit ==
    /\ [][runs' = runs + 1 => Len(form_data[1]) <= 20]_vars
    /\ []((~IsNone(decoded) /\ ~DecodeFailed /\ decoded[1].fields <= 20) =>
            /\ form_url = Some(decoded[1].url)
            /\ ~IsNone(form_data)
            /\ Len(form_data[1]) = decoded[1].fields)

\* C21: the submit reports its outcome as a value: success exactly for a
\* response status of 200, and for any other status a failure value that
\* carries the status code, so that the value returned tells the status.
C21_SubmitOutcomeIsValue ==
    (posts # <<>> /\ ~IsNone(posts[1].post)) =>
        LET p == posts[1].post[1]
        IN  /\ p.success <=> p.status = 200
            /\ \A other \in PostStatuses :
                  submit_form(form_url[1], p.data, other).success = p.success =>
                      other = p.status

\* the run failed in an Answering step
FailedInAnswering ==
    /\ run = "failed"
    /\ last.step \in {"parse_form", "ask_question", "fill_in_application"}

\* C22: an unrecoverable error during Answering ends the run as Failed: no
\* AnswerSet of the run is offered afterwards and no further cycle starts; the
\* driver, once it has read the end of the stream, holds the failed run's
\* handler no longer; and a cycle in which no query could be answered is not
\* offered for review.
C22_AnsweringErrorIsTerminal ==
    /\ [][(FailedInAnswering /\ runs' = runs) =>
            /\ run' = "failed"
            /\ cycle' = cycle
            /\ ctx' = ctx
            /\ \/ stream' = stream
               \/ stream # <<>> /\ stream' = Tail(stream)]_vars
    /\ []((FailedInAnswering /\ stream = <<>> /\ pc = "idle") => ~workflow_handler)
    /\ [][(FillInStep /\ last'.consolidated) =>
            \E i \in 1..(Len(buffer) + 1) :
               Append(buffer, Head(q_response))[i].response \in AnswerTexts]_vars

\* C24: decoding is deterministic. With the page unchanged, every call of the
\* same decoding operation returns the same value, whether the handler is
\* fresh or has decoded before, and leaves the same page count behind: the
\* same descriptors in the same order, the same synthetic entries.
C24_DecodeDeterministic ==
    \A i, j \in 1..Len(schemas) :
        /\ schemas[i].page_count = schemas[j].page_count
        /\ ( /\ schemas[i].op = schemas[j].op
             /\ schemas[i].op # "parse_form"
             /\ schemas[i].only_required = schemas[j].only_required )
           => schemas[i].returned = schemas[j].returned

\* a page with a page break parsed a second time by the handler that parsed it
C24_Witness ==
    /\ Len(schemas) = 2
    /\ schemas[1].op = "parse_form_entries"
    /\ schemas[2].op = "parse_form_entries"
    /\ schemas[2].reused
    /\ ~IsNone(schemas[2].returned)
    /\ schemas[2].page_count > 0

\* the parse_form_entries calls that returned a list of entries
Parsed == {k \in 1..Len(schemas) :
              schemas[k].op = "parse_form_entries" /\ ~IsNone(schemas[k].returned)}

RECURSIVE CommaRange(_, _)
\* "i,i+1,...,n"
CommaRange(i, n) ==
    IF i >= n THEN ToString(n) ELSE ToString(i) \o "," \o CommaRange(i + 1, n)

\* C25: the two synthetic entries. A parsed list holds the e-mail entry
\* (reserved id, required) exactly when the page's setting asks for the
\* address, and the page-history entry exactly when the page count is
\* positive, its default value being "0,1,...,page count"; both stand after
\* every entry decoded from a sub entry.
C25_SyntheticEntries ==
    \A k \in Parsed :
        LET es == schemas[k].returned[1]
            emails == {i \in 1..Len(es) : es[i].id = "emailAddress"}
            history == {i \in 1..Len(es) : es[i].id = "pageHistory"}
        IN  /\ (emails # {}) <=> (web[1].email > 1)
            /\ Cardinality(emails) <= 1
            /\ \A i \in emails : es[i].required = TRUE /\ IsReservedId(es[i].id)
            /\ (history # {}) <=> (schemas[k].page_count > 0)
            /\ Cardinality(history) <= 1
            /\ \A i \in history :
                  es[i].default_value = CommaRange(0, schemas[k].page_count)
            /\ \A i \in emails \cup history :
                  \A j \in (1..Len(es)) \ (emails \cup history) : j < i

\* a page with a question, a page break and e-mail collection has been parsed
C25_Witness ==
    \E k \in Parsed :
        LET es == schemas[k].returned[1]
        IN  /\ Len(es) = 3
            /\ es[1].id \notin {"emailAddress", "pageHistory"}
            /\ es[2].id = "emailAddress"
            /\ es[3].id = "pageHistory"
            /\ es[3].default_value = "0,1"

\* the groups of a page that are not page breaks, in the page's order
IsQuestionGroup(g) == g.type # FORM_SESSION_TYPE_ID

RECURSIVE SubIds(_)
\* the ids of the sub entries of a list of groups: first group first, and
\* within a group first sub entry first
SubIds(groups) ==
    IF groups = <<>> THEN <<>>
    ELSE [j \in 1..Len(Head(groups).subs) |-> Head(groups).subs[j].id]
         \o SubIds(Tail(groups))

\* C26: the walk over the groups. After a parse the page count is the number
\* of groups with the page-break type code; those groups give no entry; the
\* entries decoded from the other groups stand in group order and, within a
\* group, in sub entry order.
C26_GroupWalk ==
    \A k \in Parsed :
        LET es == schemas[k].returned[1]
            groups == web[1].groups
            breaks == {i \in 1..Len(groups) : groups[i].type = FORM_SESSION_TYPE_ID}
            decoded_ids == SelectSeq([i \in 1..Len(es) |-> es[i].id],
                                     LAMBDA id : ~IsReservedId(id))
        IN  /\ schemas[k].page_count = Cardinality(breaks)
            /\ decoded_ids = SubIds(SelectSeq(groups, IsQuestionGroup))
            /\ \A i \in breaks : \A j \in 1..Len(es) :
                  \A m \in 1..Len(groups[i].subs) : es[j].id # groups[i].subs[m].id

\* a grid of two rows after a page break has been parsed
C26_Witness ==
    \E k \in Parsed :
        /\ Len(web[1].groups) = 2
        /\ web[1].groups[1].type = FORM_SESSION_TYPE_ID
        /\ Len(web[1].groups[2].subs) = 2
        /\ schemas[k].page_count = 1
        /\ schemas[k].returned[1][1].id = web[1].groups[2].subs[1].id
        /\ schemas[k].returned[1][2].id = web[1].groups[2].subs[2].id

\* how many times p occurs in s
Occurrences(s, p) ==
    Cardinality({i \in 1..(Len(s) - Len(p) + 1) : SubSeq(s, i, i + Len(p) - 1) = p})

\* C27: the submission URL of a handler. It is the handler's URL with the
\* viewer segment replaced by the submit segment; the submit segment is
\* appended only to a URL that does not hold it yet; the result holds the
\* segment exactly once, and deriving the URL of the result gives the result.
C27_SubmissionUrl ==
    ~IsNone(handler) =>
        LET replaced == replace(handler[1].url, "/viewform", "/formResponse")
            derived == get_form_response_url(handler[1].url)
        IN  /\ contains(replaced, "/formResponse") => derived = replaced
            /\ ~contains(replaced, "/formResponse") =>
                  derived \in {replaced \o "/formResponse", replaced \o "formResponse"}
            /\ Occurrences(derived, "/formResponse") = 1
            /\ get_form_response_url(derived) = derived

RECURSIVE SubTypes(_)
\* the type code of every sub entry of a list of groups, in order
SubTypes(groups) ==
    IF groups = <<>> THEN <<>>
    ELSE [j \in 1..Len(Head(groups).subs) |-> Head(groups).type]
         \o SubTypes(Tail(groups))

\* the type code of every question of a page: its decoded sub entries, then
\* the e-mail entry when the page collects the address
QuestionTypes(page) ==
    SubTypes(SelectSeq(page.groups, IsQuestionGroup))
    \o (IF page.email > 1 THEN <<"required">> ELSE <<>>)

\* the parse_form calls: the queries compiled from a frame of all questions
Compiled == {k \in 1..Len(schemas) : schemas[k].op = "parse_form"}

\* C28: type code to query template, end to end. The query parse_form builds
\* for a question asks to choose exactly one option iff the type code is
\* single choice ("2") or dropdown ("3"), to choose all that apply iff it is
\* checkboxes ("4"), and for a concise factual answer for every other type
\* code, the synthetic e-mail entry included.
C28_TemplateByTypeCode ==
    \A k \in Compiled :
        LET queries == schemas[k].returned
            types == QuestionTypes(web[1])
        IN  queries # <<>> =>
              /\ Len(queries) = Len(types)
              /\ \A i \in 1..Len(queries) :
                    /\ queries[i].query.template = "choose one" <=> types[i] \in {"2", "3"}
                    /\ queries[i].query.template = "choose all" <=> types[i] = "4"
                    /\ queries[i].query.template = "fact" <=> types[i] \notin {"2", "3", "4"}

\* the queries of a page with checkboxes and e-mail collection were compiled
C28_Witness ==
    \E k \in Compiled :
        /\ Len(schemas[k].returned) = 3
        /\ web[1].groups[1].type = "4"
        /\ web[1].groups[2].type = "3"
        /\ schemas[k].returned[1].query.template = "choose all"
        /\ schemas[k].returned[2].query.template = "choose one"
        /\ schemas[k].returned[3].entry_id = "emailAddress"
        /\ schemas[k].returned[3].query.template = "fact"

\* C29: what an approval returns. The StopEvent of an approving get_feedback
\* carries exactly the submission of the answer set the human was shown last
\* (the one stored when the latest InputRequiredEvent was emitted): nothing of
\* an earlier cycle and nothing produced after the review.
C29_ApprovedIsShown ==
    [][(run = "running" /\ run' = "done") =>
          LET stop == stream'[Len(stream')]
          IN  /\ stop.type = "StopEvent"
              /\ ~IsNone(stop.result)
              /\ ~IsNone(filled_form)
              /\ "submission" \in DOMAIN filled_form[1]
              /\ ParseResult(stop.result[1]) = filled_form[1].submission
              /\ ctx.filled_form = filled_form[1]]_vars

\* an approval in the second cycle returned the answers shown in that cycle
C29_Witness ==
    /\ run = "done"
    /\ cycle = 2
    /\ stream # <<>>
    /\ stream[Len(stream)].type = "StopEvent"
    /\ ~IsNone(stream[Len(stream)].result)
    /\ ~IsNone(filled_form)
    /\ "submission" \in DOMAIN filled_form[1]
    /\ DOMAIN filled_form[1].submission # {}
    /\ ParseResult(stream[Len(stream)].result[1]) = filled_form[1].submission

\* C30: no POST after a failed required-field test. When the test of the
\* submit step listed a required question as missing, submit_form is not
\* called; when it is called, the test has gone over every required row of
\* the form, its list is empty and every required row's value is in the data
\* posted.
C30_NoPostWhenMissing ==
    posts # <<>> =>
        LET r == posts[1]
            required_fields == get_form_questions_df(r.entries, TRUE)
        IN  /\ Len(r.missing_fields) > 0 => IsNone(r.post)
            /\ ~IsNone(r.post) =>
                  /\ r.missing_fields = <<>>
                  /\ \A i \in 1..Len(required_fields) :
                        /\ ~IsMissing(r.form_data, required_fields[i])
                        /\ WireKey(required_fields[i].Entry_ID) \in DOMAIN r.post[1].data

\* the submit step stopped at the test: of two required questions one had a
\* value and one had none, and nothing was posted
C30_Witness ==
    /\ posts # <<>>
    /\ IsNone(posts[1].post)
    /\ Len(get_form_questions_df(posts[1].entries, TRUE)) = 2
    /\ Len(posts[1].missing_fields) = 1
    /\ DOMAIN posts[1].form_data # {}

\* C31: a revise cycle leaves the schema as it is. Within a run, once the
\* first cycle has stored the fields, no step changes them or the barrier
\* size; a revise cycle is started by a FeedbackEvent and dispatches one
\* query for every stored field, in the stored order.
C31_SchemaKeptAcrossCycles ==
    [][(runs' = runs /\ cycle >= 1) =>
          /\ ctx'.form_data = ctx.form_data
          /\ ctx'.total_fields = ctx.total_fields
          /\ cycle' = cycle + 1 =>
                LET sent == SubSeq(q_query', Len(q_query) + 1, Len(q_query'))
                IN  /\ Head(q_parse).type = "FeedbackEvent"
                    /\ dispatched' = dispatched
                    /\ ctx'.total_fields = Len(sent)
                    /\ [i \in 1..Len(sent) |-> sent[i].entry_id]
                         = [i \in 1..Len(ctx.form_data) |-> ctx.form_data[i].Entry_ID]]_vars

\* the second cycle of a form with an optional field has been dispatched
C31_Witness ==
    /\ cycle = 2
    /\ last.step = "parse_form"
    /\ dispatched = 2
    /\ ctx.total_fields = 2
    /\ \E i \in 1..Len(ctx.form_data) : ~ctx.form_data[i].Required

\* cycle k is answering: its queries are out and its barrier has not released
Answering(k) == run = "running" /\ cycle = k /\ received < dispatched

\* the barrier of cycle k has released and its InputRequiredEvent is emitted
Released(k) ==
    /\ cycle = k
    /\ last.step = "fill_in_application"
    /\ ~last.raised
    /\ last.consolidated

\* C32: progress of a cycle. With the workflow steps scheduled fairly and
\* every call returning or raising, every answering cycle, the first and
\* every revise cycle, comes to the review: its barrier releases and one
\* InputRequiredEvent is emitted; the barrier releases only for the response
\* that completes the cycle, so never twice in a cycle.
C32_CycleReachesReview ==
    /\ \A k \in 1..MaxCycles : Answering(k) ~> Released(k)
    /\ [][(FillInStep /\ last'.consolidated) =>
            /\ received < dispatched
            /\ received' = dispatched
            /\ Len(stream') = Len(stream) + 1]_vars

\* the queries a parse_form step has just dispatched
Sent == SubSeq(q_query', Len(q_query) + 1, Len(q_query'))

\* C33: the feedback is reset each cycle. The queries of the first cycle
\* carry no feedback block. A revising get_feedback forwards the text of the
\* human response it handles and nothing else, and the queries of the cycle
\* that follows carry that one text: no text of an earlier review is in them.
C33_FeedbackReset ==
    /\ [][(cycle = 0 /\ cycle' = 1) =>
            \A i \in 1..Len(Sent) : IsNone(Sent[i].query.feedback)]_vars
    /\ [][(cycle >= 1 /\ cycle' = cycle + 1) =>
            \A i \in 1..Len(Sent) :
               Sent[i].query.feedback = Some(Head(q_parse).feedback)]_vars
    /\ [][(last' # last /\ last'.step = "get_feedback" /\ ~last'.raised
              /\ last'.verdict = "Revise") =>
            /\ q_parse' = Append(q_parse, FeedbackEvent(Head(q_human).response))
            /\ Head(q_human).response = current_feedback[1]]_vars

\* a third cycle has been dispatched with the text of the second review
C33_Witness ==
    /\ cycle = 3
    /\ last.step = "parse_form"
    /\ q_query # <<>>
    /\ \A i \in 1..Len(q_query) : q_query[i].query.feedback = current_feedback
    /\ current_feedback = Some("OK")

\* C34: a revise cycle replaces the answer set as a whole. When a cycle
\* starts, no query, no response and no buffered response of an earlier cycle
\* is left; the answer set a consolidation stores is built from the responses
\* collected since, one per dispatched query, and from nothing else, and the
\* buffer is empty again afterwards.
C34_AnswerSetReplaced ==
    /\ [][cycle' = cycle + 1 =>
            (q_query = <<>> /\ q_response = <<>> /\ buffer = <<>>)]_vars
    /\ [][(FillInStep /\ last'.consolidated) =>
            LET collected == Append(buffer, Head(q_response))
            IN  /\ Len(collected) = dispatched
                /\ buffer' = <<>>
                /\ \E out \in SummaryOutputs(collected) :
                      ctx'.filled_form = Consolidate(collected, out.text)]_vars

\* the answer set of the second cycle has been stored
C34_Witness ==
    /\ cycle = 2
    /\ last.step = "fill_in_application"
    /\ ~last.raised
    /\ last.consolidated
    /\ received = 2
    /\ buffer = <<>>
    /\ "filled_form" \in DOMAIN ctx

\* fill_in_application takes a ResponseEvent from its queue
TakesResponse ==
    /\ q_response # <<>>
    /\ last' # last
    /\ last'.step = "fill_in_application"

C36_StepInRange ==
    /\ [](current_step \in 0..3)
    /\ [][current_step' < current_step =>
            (current_step > 0 /\ current_step' = current_step - 1)]_vars
    /\ [](pc = "streaming" => current_step = 2)
    /\ [][wfvars' # wfvars => current_step = 2]_vars

\* the user is back at the review after a run that ended with an approval
C36_Witness ==
    /\ current_step = 2
    /\ run = "done"
    /\ pc = "rerun"
    /\ ~workflow
    /\ ~IsNone(filled_form)

\* C37: the handler belongs to the form in the session. Whenever the session
\* holds a workflow handler whose run has stored its fields, those fields are
\* the form data the session holds now; in particular the review step never
\* goes on with a run that was started for another form.
C37_HandlerMatchesForm ==
    (workflow_handler /\ "form_data" \in DOMAIN ctx) =>
        form_data = Some(ctx.form_data)

\* C38: the two feedback flags. waiting_for_feedback and feedback_submitted
\* are never both true; feedback_submitted is raised only by the submit click
\* while the review is waiting, it is true only while the script run that
\* delivers the response is pending, and the very next step takes it down:
\* either the response is delivered to the workflow and counted, or delivery
\* fails and the session is back at waiting_for_feedback with the counter and
\* the workflow's queue untouched.
C38_FeedbackFlags ==
    /\ [](~(waiting_for_feedback /\ feedback_submitted))
    /\ [](feedback_submitted =>
            pc = "rerun" /\ current_step = 2 /\ ~IsNone(current_feedback))
    /\ [][~feedback_submitted /\ feedback_submitted' =>
            /\ waiting_for_feedback
            /\ ~waiting_for_feedback'
            /\ UNCHANGED <<feedback_count, wfvars>>]_vars
    /\ [][feedback_submitted =>
            /\ ~feedback_submitted'
            /\ \/ /\ q_human' = Append(q_human, HumanResponseEvent(current_feedback[1]))
                  /\ feedback_count' = feedback_count + 1
                  /\ ~waiting_for_feedback'
               \/ /\ q_human' = q_human
                  /\ feedback_count' = feedback_count
                  /\ waiting_for_feedback']_vars

\* a delivery has failed: the review waits again, the submitted text is still
\* held and nothing was counted or queued
C38_Witness ==
    /\ waiting_for_feedback
    /\ ~feedback_submitted
    /\ ~IsNone(current_feedback)
    /\ feedback_count = 0
    /\ q_human = <<>>
    /\ workflow_handler
    /\ pc = "idle"

\* the driver takes a StopEvent off the stream of the run
ProcessesStop ==
    /\ pc = "streaming"
    /\ stream # <<>>
    /\ Head(stream).type = "StopEvent"
    /\ stream' = Tail(stream)

\* C39: after the StopEvent. Once the driver has processed the StopEvent of a
\* run the session holds no workflow and no handler and both feedback flags
\* are false; the next script run of the review step then creates a workflow
\* and a handler for a new run with the feedback counter back at 0; and a
\* HumanResponseEvent is only ever sent to a run that has not terminated.
C39_AfterStop ==
    /\ [][ProcessesStop =>
            /\ ~workflow' /\ ~workflow_handler'
            /\ ~waiting_for_feedback' /\ ~feedback_submitted']_vars
    /\ [][(~workflow /\ run = "done" /\ current_step = 2 /\ current_step' = 2) =>
            /\ workflow' /\ workflow_handler'
            /\ feedback_count' = 0
            /\ ~waiting_for_feedback' /\ ~feedback_submitted'
            /\ run' = "running" /\ runs' = runs + 1
            /\ ctx' = EmptyCtx /\ q_human' = <<>>]_vars
    /\ [][Len(q_human') > Len(q_human) => run = "running"]_vars

\* the entry ids of the answers a stored form shows
DisplayIds(stored) ==
    {stored.display.answers[i].entry_id : i \in 1..Len(stored.display.answers)}

\* C40: the stored AnswerSet is well formed. Whenever the run context holds
\* a filled form it has a display part and a submission map, and every key of
\* the submission map is the entry id of an answer of the display part; hence
\* no StopEvent of the run carries the error structure, and a run is approved
\* only while a non-empty filled form is stored.
C40_AnswerSetWellFormed ==
    /\ []("filled_form" \in DOMAIN ctx =>
            /\ {"display", "submission"} \subseteq DOMAIN ctx.filled_form
            /\ "answers" \in DOMAIN ctx.filled_form.display
            /\ DOMAIN ctx.filled_form.submission \subseteq DisplayIds(ctx.filled_form))
    /\ [](\A i \in 1..Len(stream) :
            (stream[i].type = "StopEvent" /\ ~IsNone(stream[i].result)) =>
                "error" \notin DOMAIN stream[i].result[1].json)
    /\ [][(run = "running" /\ run' = "done") =>
            /\ "filled_form" \in DOMAIN ctx
            /\ DOMAIN ctx.filled_form # {}]_vars

\* a run approved on a stored form of two answers, its StopEvent still on the
\* stream
C40_Witness ==
    /\ run = "done"
    /\ "filled_form" \in DOMAIN ctx
    /\ Cardinality(DOMAIN ctx.filled_form.submission) = 2
    /\ stream # <<>>
    /\ stream[Len(stream)].type = "StopEvent"

====
